---- MODULE Spec2Model ----
(***************************************************************************)
(* Model of backend/app.py: the conversation registry, the Conversation    *)
(* object and the request handlers of the chat backend.                    *)
(*                                                                         *)
(* Text is modelled as it is in Python: a string is a sequence of          *)
(* characters.  An ASCII character is the one-character TLA+ string; any   *)
(* other code point, and the backquote, is written "U+XXXX".  Opaque keys  *)
(* (conversation ids, titles, roles, dictionary keys) are TLA+ strings.    *)
(*                                                                         *)
(* Every handler is `async def` and contains no `await`, so under the      *)
(* event loop each request runs from its first line to its return (or      *)
(* raise) without another request in between: one action per handler.      *)
(* SpecInFlight does not take this for granted: it keeps two chat turns    *)
(* in flight, each in steps around its completion call, under an event     *)
(* loop that changes handler where the running one awaits.                 *)
(***************************************************************************)
EXTENDS Naturals, Sequences, FiniteSets, TLC

VARIABLES conversations, order, last, inflight

vars == <<conversations, order, last, inflight>>

(***************************************************************************)
(* Python string operations                                                *)
(*                                                                         *)
(* The tables below are those of the Unicode database of CPython 3.11.     *)
(***************************************************************************)
\* the characters with codes 0x20 to 0x7E, in order
AsciiPrintable ==
    <<" ","!","\"","#","$","%","&","'","(",")","*","+",",","-",".","/","0",
      "1","2","3","4","5","6","7","8","9",":",";","<","=",">","?","@","A","B",
      "C","D","E","F","G","H","I","J","K","L","M","N","O","P","Q","R","S","T",
      "U","V","W","X","Y","Z","[","\\","]","^","_","U+0060","a","b","c","d",
      "e","f","g","h","i","j","k","l","m","n","o","p","q","r","s","t","u","v",
      "w","x","y","z","{","|","}","~">>

\* the ASCII characters of the class \w: the digits (codes 48 to 57, the
\* characters 17 to 26 of AsciiPrintable), the letters (65 to 90 and 97 to 122)
\* and "_"
AsciiWordChars == {AsciiPrintable[k] : k \in (17..26) \cup (34..59) \cup (66..91)} \cup {"_"}

\* str.lower() on an ASCII character written as itself (one character long):
\* the letters with codes 65 to 90 become those with codes 97 to 122
ToLower ==
    [c \in ({AsciiPrintable[k] : k \in 1..Len(AsciiPrintable)} \ {"U+0060"})
               \cup {"\t", "\n", "\f", "\r"} |->
        IF \E k \in 34..59 : AsciiPrintable[k] = c
        THEN AsciiPrintable[32 + CHOOSE k \in 34..59 : AsciiPrintable[k] = c]
        ELSE c]

\* str.upper() on such a character
ToUpper ==
    [c \in DOMAIN ToLower |->
        IF \E k \in 66..91 : AsciiPrintable[k] = c
        THEN AsciiPrintable[(CHOOSE k \in 66..91 : AsciiPrintable[k] = c) - 32]
        ELSE c]

HexDigits == <<"0","1","2","3","4","5","6","7","8","9","a","b","c","d","e","f">>

\* a hexadecimal digit, in either case
IsHex(c) == Len(c) = 1 /\ \E d \in 1..Len(HexDigits) : HexDigits[d] = ToLower[c]

HexValue(c) == (CHOOSE d \in 1..Len(HexDigits) : HexDigits[d] = ToLower[c]) - 1

\* ord(c): the code point of a character
RECURSIVE CodePoint(_)
CodePoint(c) ==
    IF Len(c) > 1
    THEN IF Len(c) = 2 THEN 0
         ELSE 16 * CodePoint(SubSeq(c, 1, Len(c) - 1)) + HexValue(SubSeq(c, Len(c), Len(c)))
    ELSE IF c = "\t" THEN 9
    ELSE IF c = "\n" THEN 10
    ELSE IF c = "\f" THEN 12
    ELSE IF c = "\r" THEN 13
    ELSE 31 + CHOOSE k \in 1..Len(AsciiPrintable) : AsciiPrintable[k] = c

\* chr(n): the character of a code point, "U+" and its code in at least four
\* upper-case hexadecimal digits when it is not written as itself
Char(n) ==
    IF n = 9 THEN "\t"
    ELSE IF n = 10 THEN "\n"
    ELSE IF n = 12 THEN "\f"
    ELSE IF n = 13 THEN "\r"
    ELSE IF n >= 32 /\ n <= 126 THEN AsciiPrintable[n - 31]
    ELSE "U+" \o (IF n >= 1048576 THEN ToUpper[HexDigits[(n \div 1048576) + 1]] ELSE "")
              \o (IF n >= 65536 THEN ToUpper[HexDigits[((n \div 65536) % 16) + 1]] ELSE "")
              \o ToUpper[HexDigits[((n \div 4096) % 16) + 1]]
              \o ToUpper[HexDigits[((n \div 256) % 16) + 1]]
              \o ToUpper[HexDigits[((n \div 16) % 16) + 1]]
              \o ToUpper[HexDigits[(n % 16) + 1]]

\* the characters str.isspace() holds of: those str.strip() removes and the
\* class \s of the re module matches
Spaces ==
    {
      "\t", "\n", "U+000B", "\f", "\r", "U+001C", "U+001D", "U+001E", "U+001F",
      " ", "U+0085", "U+00A0", "U+1680", "U+2000", "U+2001", "U+2002", "U+2003",
      "U+2004", "U+2005", "U+2006", "U+2007", "U+2008", "U+2009", "U+200A",
      "U+2028", "U+2029", "U+202F", "U+205F", "U+3000"
    }

\* the class \w of the re module on text: the code points of the alphanumeric
\* characters (str.isalnum) and of "_", as ranges: first, last of each in turn
WordRanges ==
    <<
      48, 57,   65, 90,   95, 95,   97, 122,   170, 170,   178, 179,   181, 181,
      185, 186,   188, 190,   192, 214,   216, 246,   248, 705,   710, 721,
      736, 740,   748, 748,   750, 750,   880, 884,   886, 887,   890, 893,
      895, 895,   902, 902,   904, 906,   908, 908,   910, 929,   931, 1013,
      1015, 1153,   1162, 1327,   1329, 1366,   1369, 1369,   1376, 1416,
      1488, 1514,   1519, 1522,   1568, 1610,   1632, 1641,   1646, 1647,
      1649, 1747,   1749, 1749,   1765, 1766,   1774, 1788,   1791, 1791,
      1808, 1808,   1810, 1839,   1869, 1957,   1969, 1969,   1984, 2026,
      2036, 2037,   2042, 2042,   2048, 2069,   2074, 2074,   2084, 2084,
      2088, 2088,   2112, 2136,   2144, 2154,   2160, 2183,   2185, 2190,
      2208, 2249,   2308, 2361,   2365, 2365,   2384, 2384,   2392, 2401,
      2406, 2415,   2417, 2432,   2437, 2444,   2447, 2448,   2451, 2472,
      2474, 2480,   2482, 2482,   2486, 2489,   2493, 2493,   2510, 2510,
      2524, 2525,   2527, 2529,   2534, 2545,   2548, 2553,   2556, 2556,
      2565, 2570,   2575, 2576,   2579, 2600,   2602, 2608,   2610, 2611,
      2613, 2614,   2616, 2617,   2649, 2652,   2654, 2654,   2662, 2671,
      2674, 2676,   2693, 2701,   2703, 2705,   2707, 2728,   2730, 2736,
      2738, 2739,   2741, 2745,   2749, 2749,   2768, 2768,   2784, 2785,
      2790, 2799,   2809, 2809,   2821, 2828,   2831, 2832,   2835, 2856,
      2858, 2864,   2866, 2867,   2869, 2873,   2877, 2877,   2908, 2909,
      2911, 2913,   2918, 2927,   2929, 2935,   2947, 2947,   2949, 2954,
      2958, 2960,   2962, 2965,   2969, 2970,   2972, 2972,   2974, 2975,
      2979, 2980,   2984, 2986,   2990, 3001,   3024, 3024,   3046, 3058,
      3077, 3084,   3086, 3088,   3090, 3112,   3114, 3129,   3133, 3133,
      3160, 3162,   3165, 3165,   3168, 3169,   3174, 3183,   3192, 3198,
      3200, 3200,   3205, 3212,   3214, 3216,   3218, 3240,   3242, 3251,
      3253, 3257,   3261, 3261,   3293, 3294,   3296, 3297,   3302, 3311,
      3313, 3314,   3332, 3340,   3342, 3344,   3346, 3386,   3389, 3389,
      3406, 3406,   3412, 3414,   3416, 3425,   3430, 3448,   3450, 3455,
      3461, 3478,   3482, 3505,   3507, 3515,   3517, 3517,   3520, 3526,
      3558, 3567,   3585, 3632,   3634, 3635,   3648, 3654,   3664, 3673,
      3713, 3714,   3716, 3716,   3718, 3722,   3724, 3747,   3749, 3749,
      3751, 3760,   3762, 3763,   3773, 3773,   3776, 3780,   3782, 3782,
      3792, 3801,   3804, 3807,   3840, 3840,   3872, 3891,   3904, 3911,
      3913, 3948,   3976, 3980,   4096, 4138,   4159, 4169,   4176, 4181,
      4186, 4189,   4193, 4193,   4197, 4198,   4206, 4208,   4213, 4225,
      4238, 4238,   4240, 4249,   4256, 4293,   4295, 4295,   4301, 4301,
      4304, 4346,   4348, 4680,   4682, 4685,   4688, 4694,   4696, 4696,
      4698, 4701,   4704, 4744,   4746, 4749,   4752, 4784,   4786, 4789,
      4792, 4798,   4800, 4800,   4802, 4805,   4808, 4822,   4824, 4880,
      4882, 4885,   4888, 4954,   4969, 4988,   4992, 5007,   5024, 5109,
      5112, 5117,   5121, 5740,   5743, 5759,   5761, 5786,   5792, 5866,
      5870, 5880,   5888, 5905,   5919, 5937,   5952, 5969,   5984, 5996,
      5998, 6000,   6016, 6067,   6103, 6103,   6108, 6108,   6112, 6121,
      6128, 6137,   6160, 6169,   6176, 6264,   6272, 6276,   6279, 6312,
      6314, 6314,   6320, 6389,   6400, 6430,   6470, 6509,   6512, 6516,
      6528, 6571,   6576, 6601,   6608, 6618,   6656, 6678,   6688, 6740,
      6784, 6793,   6800, 6809,   6823, 6823,   6917, 6963,   6981, 6988,
      6992, 7001,   7043, 7072,   7086, 7141,   7168, 7203,   7232, 7241,
      7245, 7293,   7296, 7304,   7312, 7354,   7357, 7359,   7401, 7404,
      7406, 7411,   7413, 7414,   7418, 7418,   7424, 7615,   7680, 7957,
      7960, 7965,   7968, 8005,   8008, 8013,   8016, 8023,   8025, 8025,
      8027, 8027,   8029, 8029,   8031, 8061,   8064, 8116,   8118, 8124,
      8126, 8126,   8130, 8132,   8134, 8140,   8144, 8147,   8150, 8155,
      8160, 8172,   8178, 8180,   8182, 8188,   8304, 8305,   8308, 8313,
      8319, 8329,   8336, 8348,   8450, 8450,   8455, 8455,   8458, 8467,
      8469, 8469,   8473, 8477,   8484, 8484,   8486, 8486,   8488, 8488,
      8490, 8493,   8495, 8505,   8508, 8511,   8517, 8521,   8526, 8526,
      8528, 8585,   9312, 9371,   9450, 9471,   10102, 10131,   11264, 11492,
      11499, 11502,   11506, 11507,   11517, 11517,   11520, 11557,
      11559, 11559,   11565, 11565,   11568, 11623,   11631, 11631,
      11648, 11670,   11680, 11686,   11688, 11694,   11696, 11702,
      11704, 11710,   11712, 11718,   11720, 11726,   11728, 11734,
      11736, 11742,   11823, 11823,   12293, 12295,   12321, 12329,
      12337, 12341,   12344, 12348,   12353, 12438,   12445, 12447,
      12449, 12538,   12540, 12543,   12549, 12591,   12593, 12686,
      12690, 12693,   12704, 12735,   12784, 12799,   12832, 12841,
      12872, 12879,   12881, 12895,   12928, 12937,   12977, 12991,
      13312, 19903,   19968, 42124,   42192, 42237,   42240, 42508,
      42512, 42539,   42560, 42606,   42623, 42653,   42656, 42735,
      42775, 42783,   42786, 42888,   42891, 42954,   42960, 42961,
      42963, 42963,   42965, 42969,   42994, 43009,   43011, 43013,
      43015, 43018,   43020, 43042,   43056, 43061,   43072, 43123,
      43138, 43187,   43216, 43225,   43250, 43255,   43259, 43259,
      43261, 43262,   43264, 43301,   43312, 43334,   43360, 43388,
      43396, 43442,   43471, 43481,   43488, 43492,   43494, 43518,
      43520, 43560,   43584, 43586,   43588, 43595,   43600, 43609,
      43616, 43638,   43642, 43642,   43646, 43695,   43697, 43697,
      43701, 43702,   43705, 43709,   43712, 43712,   43714, 43714,
      43739, 43741,   43744, 43754,   43762, 43764,   43777, 43782,
      43785, 43790,   43793, 43798,   43808, 43814,   43816, 43822,
      43824, 43866,   43868, 43881,   43888, 44002,   44016, 44025,
      44032, 55203,   55216, 55238,   55243, 55291,   63744, 64109,
      64112, 64217,   64256, 64262,   64275, 64279,   64285, 64285,
      64287, 64296,   64298, 64310,   64312, 64316,   64318, 64318,
      64320, 64321,   64323, 64324,   64326, 64433,   64467, 64829,
      64848, 64911,   64914, 64967,   65008, 65019,   65136, 65140,
      65142, 65276,   65296, 65305,   65313, 65338,   65345, 65370,
      65382, 65470,   65474, 65479,   65482, 65487,   65490, 65495,
      65498, 65500,   65536, 65547,   65549, 65574,   65576, 65594,
      65596, 65597,   65599, 65613,   65616, 65629,   65664, 65786,
      65799, 65843,   65856, 65912,   65930, 65931,   66176, 66204,
      66208, 66256,   66273, 66299,   66304, 66339,   66349, 66378,
      66384, 66421,   66432, 66461,   66464, 66499,   66504, 66511,
      66513, 66517,   66560, 66717,   66720, 66729,   66736, 66771,
      66776, 66811,   66816, 66855,   66864, 66915,   66928, 66938,
      66940, 66954,   66956, 66962,   66964, 66965,   66967, 66977,
      66979, 66993,   66995, 67001,   67003, 67004,   67072, 67382,
      67392, 67413,   67424, 67431,   67456, 67461,   67463, 67504,
      67506, 67514,   67584, 67589,   67592, 67592,   67594, 67637,
      67639, 67640,   67644, 67644,   67647, 67669,   67672, 67702,
      67705, 67742,   67751, 67759,   67808, 67826,   67828, 67829,
      67835, 67867,   67872, 67897,   67968, 68023,   68028, 68047,
      68050, 68096,   68112, 68115,   68117, 68119,   68121, 68149,
      68160, 68168,   68192, 68222,   68224, 68255,   68288, 68295,
      68297, 68324,   68331, 68335,   68352, 68405,   68416, 68437,
      68440, 68466,   68472, 68497,   68521, 68527,   68608, 68680,
      68736, 68786,   68800, 68850,   68858, 68899,   68912, 68921,
      69216, 69246,   69248, 69289,   69296, 69297,   69376, 69415,
      69424, 69445,   69457, 69460,   69488, 69505,   69552, 69579,
      69600, 69622,   69635, 69687,   69714, 69743,   69745, 69746,
      69749, 69749,   69763, 69807,   69840, 69864,   69872, 69881,
      69891, 69926,   69942, 69951,   69956, 69956,   69959, 69959,
      69968, 70002,   70006, 70006,   70019, 70066,   70081, 70084,
      70096, 70106,   70108, 70108,   70113, 70132,   70144, 70161,
      70163, 70187,   70272, 70278,   70280, 70280,   70282, 70285,
      70287, 70301,   70303, 70312,   70320, 70366,   70384, 70393,
      70405, 70412,   70415, 70416,   70419, 70440,   70442, 70448,
      70450, 70451,   70453, 70457,   70461, 70461,   70480, 70480,
      70493, 70497,   70656, 70708,   70727, 70730,   70736, 70745,
      70751, 70753,   70784, 70831,   70852, 70853,   70855, 70855,
      70864, 70873,   71040, 71086,   71128, 71131,   71168, 71215,
      71236, 71236,   71248, 71257,   71296, 71338,   71352, 71352,
      71360, 71369,   71424, 71450,   71472, 71483,   71488, 71494,
      71680, 71723,   71840, 71922,   71935, 71942,   71945, 71945,
      71948, 71955,   71957, 71958,   71960, 71983,   71999, 71999,
      72001, 72001,   72016, 72025,   72096, 72103,   72106, 72144,
      72161, 72161,   72163, 72163,   72192, 72192,   72203, 72242,
      72250, 72250,   72272, 72272,   72284, 72329,   72349, 72349,
      72368, 72440,   72704, 72712,   72714, 72750,   72768, 72768,
      72784, 72812,   72818, 72847,   72960, 72966,   72968, 72969,
      72971, 73008,   73030, 73030,   73040, 73049,   73056, 73061,
      73063, 73064,   73066, 73097,   73112, 73112,   73120, 73129,
      73440, 73458,   73648, 73648,   73664, 73684,   73728, 74649,
      74752, 74862,   74880, 75075,   77712, 77808,   77824, 78894,
      82944, 83526,   92160, 92728,   92736, 92766,   92768, 92777,
      92784, 92862,   92864, 92873,   92880, 92909,   92928, 92975,
      92992, 92995,   93008, 93017,   93019, 93025,   93027, 93047,
      93053, 93071,   93760, 93846,   93952, 94026,   94032, 94032,
      94099, 94111,   94176, 94177,   94179, 94179,   94208, 100343,
      100352, 101589,   101632, 101640,   110576, 110579,   110581, 110587,
      110589, 110590,   110592, 110882,   110928, 110930,   110948, 110951,
      110960, 111355,   113664, 113770,   113776, 113788,   113792, 113800,
      113808, 113817,   119520, 119539,   119648, 119672,   119808, 119892,
      119894, 119964,   119966, 119967,   119970, 119970,   119973, 119974,
      119977, 119980,   119982, 119993,   119995, 119995,   119997, 120003,
      120005, 120069,   120071, 120074,   120077, 120084,   120086, 120092,
      120094, 120121,   120123, 120126,   120128, 120132,   120134, 120134,
      120138, 120144,   120146, 120485,   120488, 120512,   120514, 120538,
      120540, 120570,   120572, 120596,   120598, 120628,   120630, 120654,
      120656, 120686,   120688, 120712,   120714, 120744,   120746, 120770,
      120772, 120779,   120782, 120831,   122624, 122654,   123136, 123180,
      123191, 123197,   123200, 123209,   123214, 123214,   123536, 123565,
      123584, 123627,   123632, 123641,   124896, 124902,   124904, 124907,
      124909, 124910,   124912, 124926,   124928, 125124,   125127, 125135,
      125184, 125251,   125259, 125259,   125264, 125273,   126065, 126123,
      126125, 126127,   126129, 126132,   126209, 126253,   126255, 126269,
      126464, 126467,   126469, 126495,   126497, 126498,   126500, 126500,
      126503, 126503,   126505, 126514,   126516, 126519,   126521, 126521,
      126523, 126523,   126530, 126530,   126535, 126535,   126537, 126537,
      126539, 126539,   126541, 126543,   126545, 126546,   126548, 126548,
      126551, 126551,   126553, 126553,   126555, 126555,   126557, 126557,
      126559, 126559,   126561, 126562,   126564, 126564,   126567, 126570,
      126572, 126578,   126580, 126583,   126585, 126588,   126590, 126590,
      126592, 126601,   126603, 126619,   126625, 126627,   126629, 126633,
      126635, 126651,   127232, 127244,   130032, 130041,   131072, 173791,
      173824, 177976,   177984, 178205,   178208, 183969,   183984, 191456,
      194560, 195101,   196608, 201546
    >>

\* the lower-case mapping of str.lower(), as rules of six numbers in turn: first,
\* last, step, and the up to three code points of the image of first (0: none).
\* A rule covers first, first + step, ... up to last; the covered code point
\* first + d has the image of first with d added to its first code point
LowerRules ==
    <<
      65, 90, 1, 97, 0, 0,   192, 214, 1, 224, 0, 0,   216, 222, 1, 248, 0, 0,
      256, 302, 2, 257, 0, 0,   304, 304, 1, 105, 775, 0,
      306, 310, 2, 307, 0, 0,   313, 327, 2, 314, 0, 0,
      330, 374, 2, 331, 0, 0,   376, 376, 1, 255, 0, 0,
      377, 381, 2, 378, 0, 0,   385, 385, 1, 595, 0, 0,
      386, 388, 2, 387, 0, 0,   390, 390, 1, 596, 0, 0,
      391, 391, 1, 392, 0, 0,   393, 394, 1, 598, 0, 0,
      395, 395, 1, 396, 0, 0,   398, 398, 1, 477, 0, 0,
      399, 399, 1, 601, 0, 0,   400, 400, 1, 603, 0, 0,
      401, 401, 1, 402, 0, 0,   403, 403, 1, 608, 0, 0,
      404, 404, 1, 611, 0, 0,   406, 406, 1, 617, 0, 0,
      407, 407, 1, 616, 0, 0,   408, 408, 1, 409, 0, 0,
      412, 412, 1, 623, 0, 0,   413, 413, 1, 626, 0, 0,
      415, 415, 1, 629, 0, 0,   416, 420, 2, 417, 0, 0,
      422, 422, 1, 640, 0, 0,   423, 423, 1, 424, 0, 0,
      425, 425, 1, 643, 0, 0,   428, 428, 1, 429, 0, 0,
      430, 430, 1, 648, 0, 0,   431, 431, 1, 432, 0, 0,
      433, 434, 1, 650, 0, 0,   435, 437, 2, 436, 0, 0,
      439, 439, 1, 658, 0, 0,   440, 440, 1, 441, 0, 0,
      444, 444, 1, 445, 0, 0,   452, 452, 1, 454, 0, 0,
      453, 453, 1, 454, 0, 0,   455, 455, 1, 457, 0, 0,
      456, 456, 1, 457, 0, 0,   458, 458, 1, 460, 0, 0,
      459, 475, 2, 460, 0, 0,   478, 494, 2, 479, 0, 0,
      497, 497, 1, 499, 0, 0,   498, 500, 2, 499, 0, 0,
      502, 502, 1, 405, 0, 0,   503, 503, 1, 447, 0, 0,
      504, 542, 2, 505, 0, 0,   544, 544, 1, 414, 0, 0,
      546, 562, 2, 547, 0, 0,   570, 570, 1, 11365, 0, 0,
      571, 571, 1, 572, 0, 0,   573, 573, 1, 410, 0, 0,
      574, 574, 1, 11366, 0, 0,   577, 577, 1, 578, 0, 0,
      579, 579, 1, 384, 0, 0,   580, 580, 1, 649, 0, 0,
      581, 581, 1, 652, 0, 0,   582, 590, 2, 583, 0, 0,
      880, 882, 2, 881, 0, 0,   886, 886, 1, 887, 0, 0,
      895, 895, 1, 1011, 0, 0,   902, 902, 1, 940, 0, 0,
      904, 906, 1, 941, 0, 0,   908, 908, 1, 972, 0, 0,
      910, 911, 1, 973, 0, 0,   913, 929, 1, 945, 0, 0,
      931, 939, 1, 963, 0, 0,   975, 975, 1, 983, 0, 0,
      984, 1006, 2, 985, 0, 0,   1012, 1012, 1, 952, 0, 0,
      1015, 1015, 1, 1016, 0, 0,   1017, 1017, 1, 1010, 0, 0,
      1018, 1018, 1, 1019, 0, 0,   1021, 1023, 1, 891, 0, 0,
      1024, 1039, 1, 1104, 0, 0,   1040, 1071, 1, 1072, 0, 0,
      1120, 1152, 2, 1121, 0, 0,   1162, 1214, 2, 1163, 0, 0,
      1216, 1216, 1, 1231, 0, 0,   1217, 1229, 2, 1218, 0, 0,
      1232, 1326, 2, 1233, 0, 0,   1329, 1366, 1, 1377, 0, 0,
      4256, 4293, 1, 11520, 0, 0,   4295, 4295, 1, 11559, 0, 0,
      4301, 4301, 1, 11565, 0, 0,   5024, 5103, 1, 43888, 0, 0,
      5104, 5109, 1, 5112, 0, 0,   7312, 7354, 1, 4304, 0, 0,
      7357, 7359, 1, 4349, 0, 0,   7680, 7828, 2, 7681, 0, 0,
      7838, 7838, 1, 223, 0, 0,   7840, 7934, 2, 7841, 0, 0,
      7944, 7951, 1, 7936, 0, 0,   7960, 7965, 1, 7952, 0, 0,
      7976, 7983, 1, 7968, 0, 0,   7992, 7999, 1, 7984, 0, 0,
      8008, 8013, 1, 8000, 0, 0,   8025, 8031, 2, 8017, 0, 0,
      8040, 8047, 1, 8032, 0, 0,   8072, 8079, 1, 8064, 0, 0,
      8088, 8095, 1, 8080, 0, 0,   8104, 8111, 1, 8096, 0, 0,
      8120, 8121, 1, 8112, 0, 0,   8122, 8123, 1, 8048, 0, 0,
      8124, 8124, 1, 8115, 0, 0,   8136, 8139, 1, 8050, 0, 0,
      8140, 8140, 1, 8131, 0, 0,   8152, 8153, 1, 8144, 0, 0,
      8154, 8155, 1, 8054, 0, 0,   8168, 8169, 1, 8160, 0, 0,
      8170, 8171, 1, 8058, 0, 0,   8172, 8172, 1, 8165, 0, 0,
      8184, 8185, 1, 8056, 0, 0,   8186, 8187, 1, 8060, 0, 0,
      8188, 8188, 1, 8179, 0, 0,   8486, 8486, 1, 969, 0, 0,
      8490, 8490, 1, 107, 0, 0,   8491, 8491, 1, 229, 0, 0,
      8498, 8498, 1, 8526, 0, 0,   8544, 8559, 1, 8560, 0, 0,
      8579, 8579, 1, 8580, 0, 0,   9398, 9423, 1, 9424, 0, 0,
      11264, 11311, 1, 11312, 0, 0,   11360, 11360, 1, 11361, 0, 0,
      11362, 11362, 1, 619, 0, 0,   11363, 11363, 1, 7549, 0, 0,
      11364, 11364, 1, 637, 0, 0,   11367, 11371, 2, 11368, 0, 0,
      11373, 11373, 1, 593, 0, 0,   11374, 11374, 1, 625, 0, 0,
      11375, 11375, 1, 592, 0, 0,   11376, 11376, 1, 594, 0, 0,
      11378, 11378, 1, 11379, 0, 0,   11381, 11381, 1, 11382, 0, 0,
      11390, 11391, 1, 575, 0, 0,   11392, 11490, 2, 11393, 0, 0,
      11499, 11501, 2, 11500, 0, 0,   11506, 11506, 1, 11507, 0, 0,
      42560, 42604, 2, 42561, 0, 0,   42624, 42650, 2, 42625, 0, 0,
      42786, 42798, 2, 42787, 0, 0,   42802, 42862, 2, 42803, 0, 0,
      42873, 42875, 2, 42874, 0, 0,   42877, 42877, 1, 7545, 0, 0,
      42878, 42886, 2, 42879, 0, 0,   42891, 42891, 1, 42892, 0, 0,
      42893, 42893, 1, 613, 0, 0,   42896, 42898, 2, 42897, 0, 0,
      42902, 42920, 2, 42903, 0, 0,   42922, 42922, 1, 614, 0, 0,
      42923, 42923, 1, 604, 0, 0,   42924, 42924, 1, 609, 0, 0,
      42925, 42925, 1, 620, 0, 0,   42926, 42926, 1, 618, 0, 0,
      42928, 42928, 1, 670, 0, 0,   42929, 42929, 1, 647, 0, 0,
      42930, 42930, 1, 669, 0, 0,   42931, 42931, 1, 43859, 0, 0,
      42932, 42946, 2, 42933, 0, 0,   42948, 42948, 1, 42900, 0, 0,
      42949, 42949, 1, 642, 0, 0,   42950, 42950, 1, 7566, 0, 0,
      42951, 42953, 2, 42952, 0, 0,   42960, 42960, 1, 42961, 0, 0,
      42966, 42968, 2, 42967, 0, 0,   42997, 42997, 1, 42998, 0, 0,
      65313, 65338, 1, 65345, 0, 0,   66560, 66599, 1, 66600, 0, 0,
      66736, 66771, 1, 66776, 0, 0,   66928, 66964, 2, 66967, 0, 0,
      66929, 66937, 2, 66968, 0, 0,   66941, 66953, 2, 66980, 0, 0,
      66957, 66961, 2, 66996, 0, 0,   66965, 66965, 1, 67004, 0, 0,
      68736, 68786, 1, 68800, 0, 0,   71840, 71871, 1, 71872, 0, 0,
      93760, 93791, 1, 93792, 0, 0,   125184, 125217, 1, 125218, 0, 0
    >>

\* the title-case mapping str.capitalize() applies to the first character,
\* as rules of the same form
TitleRules ==
    <<
      97, 122, 1, 65, 0, 0,   181, 181, 1, 924, 0, 0,   223, 223, 1, 83, 115, 0,
      224, 246, 1, 192, 0, 0,   248, 254, 1, 216, 0, 0,
      255, 255, 1, 376, 0, 0,   257, 303, 2, 256, 0, 0,   305, 305, 1, 73, 0, 0,
      307, 311, 2, 306, 0, 0,   314, 328, 2, 313, 0, 0,
      329, 329, 1, 700, 78, 0,   331, 375, 2, 330, 0, 0,
      378, 382, 2, 377, 0, 0,   383, 383, 1, 83, 0, 0,   384, 384, 1, 579, 0, 0,
      387, 389, 2, 386, 0, 0,   392, 392, 1, 391, 0, 0,
      396, 396, 1, 395, 0, 0,   402, 402, 1, 401, 0, 0,
      405, 405, 1, 502, 0, 0,   409, 409, 1, 408, 0, 0,
      410, 410, 1, 573, 0, 0,   414, 414, 1, 544, 0, 0,
      417, 421, 2, 416, 0, 0,   424, 424, 1, 423, 0, 0,
      429, 429, 1, 428, 0, 0,   432, 432, 1, 431, 0, 0,
      436, 438, 2, 435, 0, 0,   441, 441, 1, 440, 0, 0,
      445, 445, 1, 444, 0, 0,   447, 447, 1, 503, 0, 0,
      452, 452, 1, 453, 0, 0,   454, 454, 1, 453, 0, 0,
      455, 455, 1, 456, 0, 0,   457, 457, 1, 456, 0, 0,
      458, 458, 1, 459, 0, 0,   460, 476, 2, 459, 0, 0,
      477, 477, 1, 398, 0, 0,   479, 495, 2, 478, 0, 0,
      496, 496, 1, 74, 780, 0,   497, 497, 1, 498, 0, 0,
      499, 501, 2, 498, 0, 0,   505, 543, 2, 504, 0, 0,
      547, 563, 2, 546, 0, 0,   572, 572, 1, 571, 0, 0,
      575, 576, 1, 11390, 0, 0,   578, 578, 1, 577, 0, 0,
      583, 591, 2, 582, 0, 0,   592, 592, 1, 11375, 0, 0,
      593, 593, 1, 11373, 0, 0,   594, 594, 1, 11376, 0, 0,
      595, 595, 1, 385, 0, 0,   596, 596, 1, 390, 0, 0,
      598, 599, 1, 393, 0, 0,   601, 601, 1, 399, 0, 0,
      603, 603, 1, 400, 0, 0,   604, 604, 1, 42923, 0, 0,
      608, 608, 1, 403, 0, 0,   609, 609, 1, 42924, 0, 0,
      611, 611, 1, 404, 0, 0,   613, 613, 1, 42893, 0, 0,
      614, 614, 1, 42922, 0, 0,   616, 616, 1, 407, 0, 0,
      617, 617, 1, 406, 0, 0,   618, 618, 1, 42926, 0, 0,
      619, 619, 1, 11362, 0, 0,   620, 620, 1, 42925, 0, 0,
      623, 623, 1, 412, 0, 0,   625, 625, 1, 11374, 0, 0,
      626, 626, 1, 413, 0, 0,   629, 629, 1, 415, 0, 0,
      637, 637, 1, 11364, 0, 0,   640, 640, 1, 422, 0, 0,
      642, 642, 1, 42949, 0, 0,   643, 643, 1, 425, 0, 0,
      647, 647, 1, 42929, 0, 0,   648, 648, 1, 430, 0, 0,
      649, 649, 1, 580, 0, 0,   650, 651, 1, 433, 0, 0,
      652, 652, 1, 581, 0, 0,   658, 658, 1, 439, 0, 0,
      669, 669, 1, 42930, 0, 0,   670, 670, 1, 42928, 0, 0,
      837, 837, 1, 921, 0, 0,   881, 883, 2, 880, 0, 0,
      887, 887, 1, 886, 0, 0,   891, 893, 1, 1021, 0, 0,
      912, 912, 1, 921, 776, 769,   940, 940, 1, 902, 0, 0,
      941, 943, 1, 904, 0, 0,   944, 944, 1, 933, 776, 769,
      945, 961, 1, 913, 0, 0,   962, 962, 1, 931, 0, 0,
      963, 971, 1, 931, 0, 0,   972, 972, 1, 908, 0, 0,
      973, 974, 1, 910, 0, 0,   976, 976, 1, 914, 0, 0,
      977, 977, 1, 920, 0, 0,   981, 981, 1, 934, 0, 0,
      982, 982, 1, 928, 0, 0,   983, 983, 1, 975, 0, 0,
      985, 1007, 2, 984, 0, 0,   1008, 1008, 1, 922, 0, 0,
      1009, 1009, 1, 929, 0, 0,   1010, 1010, 1, 1017, 0, 0,
      1011, 1011, 1, 895, 0, 0,   1013, 1013, 1, 917, 0, 0,
      1016, 1016, 1, 1015, 0, 0,   1019, 1019, 1, 1018, 0, 0,
      1072, 1103, 1, 1040, 0, 0,   1104, 1119, 1, 1024, 0, 0,
      1121, 1153, 2, 1120, 0, 0,   1163, 1215, 2, 1162, 0, 0,
      1218, 1230, 2, 1217, 0, 0,   1231, 1231, 1, 1216, 0, 0,
      1233, 1327, 2, 1232, 0, 0,   1377, 1414, 1, 1329, 0, 0,
      1415, 1415, 1, 1333, 1410, 0,   5112, 5117, 1, 5104, 0, 0,
      7296, 7296, 1, 1042, 0, 0,   7297, 7297, 1, 1044, 0, 0,
      7298, 7298, 1, 1054, 0, 0,   7299, 7300, 1, 1057, 0, 0,
      7301, 7301, 1, 1058, 0, 0,   7302, 7302, 1, 1066, 0, 0,
      7303, 7303, 1, 1122, 0, 0,   7304, 7304, 1, 42570, 0, 0,
      7545, 7545, 1, 42877, 0, 0,   7549, 7549, 1, 11363, 0, 0,
      7566, 7566, 1, 42950, 0, 0,   7681, 7829, 2, 7680, 0, 0,
      7830, 7830, 1, 72, 817, 0,   7831, 7831, 1, 84, 776, 0,
      7832, 7832, 1, 87, 778, 0,   7833, 7833, 1, 89, 778, 0,
      7834, 7834, 1, 65, 702, 0,   7835, 7835, 1, 7776, 0, 0,
      7841, 7935, 2, 7840, 0, 0,   7936, 7943, 1, 7944, 0, 0,
      7952, 7957, 1, 7960, 0, 0,   7968, 7975, 1, 7976, 0, 0,
      7984, 7991, 1, 7992, 0, 0,   8000, 8005, 1, 8008, 0, 0,
      8016, 8016, 1, 933, 787, 0,   8017, 8023, 2, 8025, 0, 0,
      8018, 8018, 1, 933, 787, 768,   8020, 8020, 1, 933, 787, 769,
      8022, 8022, 1, 933, 787, 834,   8032, 8039, 1, 8040, 0, 0,
      8048, 8049, 1, 8122, 0, 0,   8050, 8053, 1, 8136, 0, 0,
      8054, 8055, 1, 8154, 0, 0,   8056, 8057, 1, 8184, 0, 0,
      8058, 8059, 1, 8170, 0, 0,   8060, 8061, 1, 8186, 0, 0,
      8064, 8071, 1, 8072, 0, 0,   8080, 8087, 1, 8088, 0, 0,
      8096, 8103, 1, 8104, 0, 0,   8112, 8113, 1, 8120, 0, 0,
      8114, 8114, 1, 8122, 837, 0,   8115, 8115, 1, 8124, 0, 0,
      8116, 8116, 1, 902, 837, 0,   8118, 8118, 1, 913, 834, 0,
      8119, 8119, 1, 913, 834, 837,   8126, 8126, 1, 921, 0, 0,
      8130, 8130, 1, 8138, 837, 0,   8131, 8131, 1, 8140, 0, 0,
      8132, 8132, 1, 905, 837, 0,   8134, 8134, 1, 919, 834, 0,
      8135, 8135, 1, 919, 834, 837,   8144, 8145, 1, 8152, 0, 0,
      8146, 8146, 1, 921, 776, 768,   8147, 8147, 1, 921, 776, 769,
      8150, 8150, 1, 921, 834, 0,   8151, 8151, 1, 921, 776, 834,
      8160, 8161, 1, 8168, 0, 0,   8162, 8162, 1, 933, 776, 768,
      8163, 8163, 1, 933, 776, 769,   8164, 8164, 1, 929, 787, 0,
      8165, 8165, 1, 8172, 0, 0,   8166, 8166, 1, 933, 834, 0,
      8167, 8167, 1, 933, 776, 834,   8178, 8178, 1, 8186, 837, 0,
      8179, 8179, 1, 8188, 0, 0,   8180, 8180, 1, 911, 837, 0,
      8182, 8182, 1, 937, 834, 0,   8183, 8183, 1, 937, 834, 837,
      8526, 8526, 1, 8498, 0, 0,   8560, 8575, 1, 8544, 0, 0,
      8580, 8580, 1, 8579, 0, 0,   9424, 9449, 1, 9398, 0, 0,
      11312, 11359, 1, 11264, 0, 0,   11361, 11361, 1, 11360, 0, 0,
      11365, 11365, 1, 570, 0, 0,   11366, 11366, 1, 574, 0, 0,
      11368, 11372, 2, 11367, 0, 0,   11379, 11379, 1, 11378, 0, 0,
      11382, 11382, 1, 11381, 0, 0,   11393, 11491, 2, 11392, 0, 0,
      11500, 11502, 2, 11499, 0, 0,   11507, 11507, 1, 11506, 0, 0,
      11520, 11557, 1, 4256, 0, 0,   11559, 11559, 1, 4295, 0, 0,
      11565, 11565, 1, 4301, 0, 0,   42561, 42605, 2, 42560, 0, 0,
      42625, 42651, 2, 42624, 0, 0,   42787, 42799, 2, 42786, 0, 0,
      42803, 42863, 2, 42802, 0, 0,   42874, 42876, 2, 42873, 0, 0,
      42879, 42887, 2, 42878, 0, 0,   42892, 42892, 1, 42891, 0, 0,
      42897, 42899, 2, 42896, 0, 0,   42900, 42900, 1, 42948, 0, 0,
      42903, 42921, 2, 42902, 0, 0,   42933, 42947, 2, 42932, 0, 0,
      42952, 42954, 2, 42951, 0, 0,   42961, 42961, 1, 42960, 0, 0,
      42967, 42969, 2, 42966, 0, 0,   42998, 42998, 1, 42997, 0, 0,
      43859, 43859, 1, 42931, 0, 0,   43888, 43967, 1, 5024, 0, 0,
      64256, 64256, 1, 70, 102, 0,   64257, 64257, 1, 70, 105, 0,
      64258, 64258, 1, 70, 108, 0,   64259, 64259, 1, 70, 102, 105,
      64260, 64260, 1, 70, 102, 108,   64261, 64261, 1, 83, 116, 0,
      64262, 64262, 1, 83, 116, 0,   64275, 64275, 1, 1348, 1398, 0,
      64276, 64276, 1, 1348, 1381, 0,   64277, 64277, 1, 1348, 1387, 0,
      64278, 64278, 1, 1358, 1398, 0,   64279, 64279, 1, 1348, 1389, 0,
      65345, 65370, 1, 65313, 0, 0,   66600, 66639, 1, 66560, 0, 0,
      66776, 66811, 1, 66736, 0, 0,   66967, 67003, 2, 66928, 0, 0,
      66968, 66976, 2, 66929, 0, 0,   66980, 66992, 2, 66941, 0, 0,
      66996, 67000, 2, 66957, 0, 0,   67004, 67004, 1, 66965, 0, 0,
      68800, 68850, 1, 68736, 0, 0,   71872, 71903, 1, 71840, 0, 0,
      93792, 93823, 1, 93760, 0, 0,   125218, 125251, 1, 125184, 0, 0
    >>

\* the code points str.lower() passes over when it looks for the cased
\* neighbours of a capital sigma (case-ignorable), as ranges
CaseIgnorableRanges ==
    <<
      39, 39,   46, 46,   58, 58,   94, 94,   96, 96,   168, 168,   173, 173,
      175, 175,   180, 180,   183, 184,   688, 879,   884, 885,   890, 890,
      900, 901,   903, 903,   1155, 1161,   1369, 1369,   1375, 1375,
      1425, 1469,   1471, 1471,   1473, 1474,   1476, 1477,   1479, 1479,
      1524, 1524,   1536, 1541,   1552, 1562,   1564, 1564,   1600, 1600,
      1611, 1631,   1648, 1648,   1750, 1757,   1759, 1768,   1770, 1773,
      1807, 1807,   1809, 1809,   1840, 1866,   1958, 1968,   2027, 2037,
      2042, 2042,   2045, 2045,   2070, 2093,   2137, 2139,   2184, 2184,
      2192, 2193,   2200, 2207,   2249, 2306,   2362, 2362,   2364, 2364,
      2369, 2376,   2381, 2381,   2385, 2391,   2402, 2403,   2417, 2417,
      2433, 2433,   2492, 2492,   2497, 2500,   2509, 2509,   2530, 2531,
      2558, 2558,   2561, 2562,   2620, 2620,   2625, 2626,   2631, 2632,
      2635, 2637,   2641, 2641,   2672, 2673,   2677, 2677,   2689, 2690,
      2748, 2748,   2753, 2757,   2759, 2760,   2765, 2765,   2786, 2787,
      2810, 2815,   2817, 2817,   2876, 2876,   2879, 2879,   2881, 2884,
      2893, 2893,   2901, 2902,   2914, 2915,   2946, 2946,   3008, 3008,
      3021, 3021,   3072, 3072,   3076, 3076,   3132, 3132,   3134, 3136,
      3142, 3144,   3146, 3149,   3157, 3158,   3170, 3171,   3201, 3201,
      3260, 3260,   3263, 3263,   3270, 3270,   3276, 3277,   3298, 3299,
      3328, 3329,   3387, 3388,   3393, 3396,   3405, 3405,   3426, 3427,
      3457, 3457,   3530, 3530,   3538, 3540,   3542, 3542,   3633, 3633,
      3636, 3642,   3654, 3662,   3761, 3761,   3764, 3772,   3782, 3782,
      3784, 3789,   3864, 3865,   3893, 3893,   3895, 3895,   3897, 3897,
      3953, 3966,   3968, 3972,   3974, 3975,   3981, 3991,   3993, 4028,
      4038, 4038,   4141, 4144,   4146, 4151,   4153, 4154,   4157, 4158,
      4184, 4185,   4190, 4192,   4209, 4212,   4226, 4226,   4229, 4230,
      4237, 4237,   4253, 4253,   4348, 4348,   4957, 4959,   5906, 5908,
      5938, 5939,   5970, 5971,   6002, 6003,   6068, 6069,   6071, 6077,
      6086, 6086,   6089, 6099,   6103, 6103,   6109, 6109,   6155, 6159,
      6211, 6211,   6277, 6278,   6313, 6313,   6432, 6434,   6439, 6440,
      6450, 6450,   6457, 6459,   6679, 6680,   6683, 6683,   6742, 6742,
      6744, 6750,   6752, 6752,   6754, 6754,   6757, 6764,   6771, 6780,
      6783, 6783,   6823, 6823,   6832, 6862,   6912, 6915,   6964, 6964,
      6966, 6970,   6972, 6972,   6978, 6978,   7019, 7027,   7040, 7041,
      7074, 7077,   7080, 7081,   7083, 7085,   7142, 7142,   7144, 7145,
      7149, 7149,   7151, 7153,   7212, 7219,   7222, 7223,   7288, 7293,
      7376, 7378,   7380, 7392,   7394, 7400,   7405, 7405,   7412, 7412,
      7416, 7417,   7468, 7530,   7544, 7544,   7579, 7679,   8125, 8125,
      8127, 8129,   8141, 8143,   8157, 8159,   8173, 8175,   8189, 8190,
      8203, 8207,   8216, 8217,   8228, 8228,   8231, 8231,   8234, 8238,
      8288, 8292,   8294, 8303,   8305, 8305,   8319, 8319,   8336, 8348,
      8400, 8432,   11388, 11389,   11503, 11505,   11631, 11631,
      11647, 11647,   11744, 11775,   11823, 11823,   12293, 12293,
      12330, 12333,   12337, 12341,   12347, 12347,   12441, 12446,
      12540, 12542,   40981, 40981,   42232, 42237,   42508, 42508,
      42607, 42610,   42612, 42621,   42623, 42623,   42652, 42655,
      42736, 42737,   42752, 42785,   42864, 42864,   42888, 42890,
      42994, 42996,   43000, 43001,   43010, 43010,   43014, 43014,
      43019, 43019,   43045, 43046,   43052, 43052,   43204, 43205,
      43232, 43249,   43263, 43263,   43302, 43309,   43335, 43345,
      43392, 43394,   43443, 43443,   43446, 43449,   43452, 43453,
      43471, 43471,   43493, 43494,   43561, 43566,   43569, 43570,
      43573, 43574,   43587, 43587,   43596, 43596,   43632, 43632,
      43644, 43644,   43696, 43696,   43698, 43700,   43703, 43704,
      43710, 43711,   43713, 43713,   43741, 43741,   43756, 43757,
      43763, 43764,   43766, 43766,   43867, 43871,   43881, 43883,
      44005, 44005,   44008, 44008,   44013, 44013,   64286, 64286,
      64434, 64450,   65024, 65039,   65043, 65043,   65056, 65071,
      65106, 65106,   65109, 65109,   65279, 65279,   65287, 65287,
      65294, 65294,   65306, 65306,   65342, 65342,   65344, 65344,
      65392, 65392,   65438, 65439,   65507, 65507,   65529, 65531,
      66045, 66045,   66272, 66272,   66422, 66426,   67456, 67461,
      67463, 67504,   67506, 67514,   68097, 68099,   68101, 68102,
      68108, 68111,   68152, 68154,   68159, 68159,   68325, 68326,
      68900, 68903,   69291, 69292,   69446, 69456,   69506, 69509,
      69633, 69633,   69688, 69702,   69744, 69744,   69747, 69748,
      69759, 69761,   69811, 69814,   69817, 69818,   69821, 69821,
      69826, 69826,   69837, 69837,   69888, 69890,   69927, 69931,
      69933, 69940,   70003, 70003,   70016, 70017,   70070, 70078,
      70089, 70092,   70095, 70095,   70191, 70193,   70196, 70196,
      70198, 70199,   70206, 70206,   70367, 70367,   70371, 70378,
      70400, 70401,   70459, 70460,   70464, 70464,   70502, 70508,
      70512, 70516,   70712, 70719,   70722, 70724,   70726, 70726,
      70750, 70750,   70835, 70840,   70842, 70842,   70847, 70848,
      70850, 70851,   71090, 71093,   71100, 71101,   71103, 71104,
      71132, 71133,   71219, 71226,   71229, 71229,   71231, 71232,
      71339, 71339,   71341, 71341,   71344, 71349,   71351, 71351,
      71453, 71455,   71458, 71461,   71463, 71467,   71727, 71735,
      71737, 71738,   71995, 71996,   71998, 71998,   72003, 72003,
      72148, 72151,   72154, 72155,   72160, 72160,   72193, 72202,
      72243, 72248,   72251, 72254,   72263, 72263,   72273, 72278,
      72281, 72283,   72330, 72342,   72344, 72345,   72752, 72758,
      72760, 72765,   72767, 72767,   72850, 72871,   72874, 72880,
      72882, 72883,   72885, 72886,   73009, 73014,   73018, 73018,
      73020, 73021,   73023, 73029,   73031, 73031,   73104, 73105,
      73109, 73109,   73111, 73111,   73459, 73460,   78896, 78904,
      92912, 92916,   92976, 92982,   92992, 92995,   94031, 94031,
      94095, 94111,   94176, 94177,   94179, 94180,   110576, 110579,
      110581, 110587,   110589, 110590,   113821, 113822,   113824, 113827,
      118528, 118573,   118576, 118598,   119143, 119145,   119155, 119170,
      119173, 119179,   119210, 119213,   119362, 119364,   121344, 121398,
      121403, 121452,   121461, 121461,   121476, 121476,   121499, 121503,
      121505, 121519,   122880, 122886,   122888, 122904,   122907, 122913,
      122915, 122916,   122918, 122922,   123184, 123197,   123566, 123566,
      123628, 123631,   125136, 125142,   125252, 125259,   127995, 127999,
      917505, 917505,   917536, 917631,   917760, 917999
    >>

\* the cased code points among those that are not case-ignorable, as ranges
CasedRanges ==
    <<
      65, 90,   97, 122,   170, 170,   181, 181,   186, 186,   192, 214,
      216, 246,   248, 442,   444, 447,   452, 659,   661, 687,   880, 883,
      886, 887,   891, 893,   895, 895,   902, 902,   904, 906,   908, 908,
      910, 929,   931, 1013,   1015, 1153,   1162, 1327,   1329, 1366,
      1376, 1416,   4256, 4293,   4295, 4295,   4301, 4301,   4304, 4346,
      4349, 4351,   5024, 5109,   5112, 5117,   7296, 7304,   7312, 7354,
      7357, 7359,   7424, 7467,   7531, 7543,   7545, 7578,   7680, 7957,
      7960, 7965,   7968, 8005,   8008, 8013,   8016, 8023,   8025, 8025,
      8027, 8027,   8029, 8029,   8031, 8061,   8064, 8116,   8118, 8124,
      8126, 8126,   8130, 8132,   8134, 8140,   8144, 8147,   8150, 8155,
      8160, 8172,   8178, 8180,   8182, 8188,   8450, 8450,   8455, 8455,
      8458, 8467,   8469, 8469,   8473, 8477,   8484, 8484,   8486, 8486,
      8488, 8488,   8490, 8493,   8495, 8500,   8505, 8505,   8508, 8511,
      8517, 8521,   8526, 8526,   8544, 8575,   8579, 8580,   9398, 9449,
      11264, 11387,   11390, 11492,   11499, 11502,   11506, 11507,
      11520, 11557,   11559, 11559,   11565, 11565,   42560, 42605,
      42624, 42651,   42786, 42863,   42865, 42887,   42891, 42894,
      42896, 42954,   42960, 42961,   42963, 42963,   42965, 42969,
      42997, 42998,   43002, 43002,   43824, 43866,   43872, 43880,
      43888, 43967,   64256, 64262,   64275, 64279,   65313, 65338,
      65345, 65370,   66560, 66639,   66736, 66771,   66776, 66811,
      66928, 66938,   66940, 66954,   66956, 66962,   66964, 66965,
      66967, 66977,   66979, 66993,   66995, 67001,   67003, 67004,
      68736, 68786,   68800, 68850,   71840, 71903,   93760, 93823,
      119808, 119892,   119894, 119964,   119966, 119967,   119970, 119970,
      119973, 119974,   119977, 119980,   119982, 119993,   119995, 119995,
      119997, 120003,   120005, 120069,   120071, 120074,   120077, 120084,
      120086, 120092,   120094, 120121,   120123, 120126,   120128, 120132,
      120134, 120134,   120138, 120144,   120146, 120485,   120488, 120512,
      120514, 120538,   120540, 120570,   120572, 120596,   120598, 120628,
      120630, 120654,   120656, 120686,   120688, 120712,   120714, 120744,
      120746, 120770,   120772, 120779,   122624, 122633,   122635, 122654,
      125184, 125251,   127280, 127305,   127312, 127337,   127344, 127369
    >>

\* the characters other than ASCII letters that a letter of a pattern matches
\* under re.IGNORECASE, each with the lower-case letter it matches
CaseFold ==
    ("U+0130" :> "i") @@ ("U+0131" :> "i") @@ ("U+017F" :> "s") @@ ("U+212A" :> "k")

\* code point n lies in one of the ranges
InRanges(n, ranges) ==
    \E k \in 1..(Len(ranges) \div 2) : ranges[2 * k - 1] <= n /\ n <= ranges[2 * k]

\* the characters code point n is mapped to by the rules of a case mapping,
\* where covering is the set of the places, in the list, of the rules that
\* cover n (at most one does): itself when no rule covers it
CaseMap(n, rules) ==
    CHOOSE t \in {IF covering = {} THEN <<Char(n)>>
                  ELSE [j \in 1..Cardinality({i \in 4..6 :
                                                 rules[(CHOOSE r \in covering : TRUE) + i] # 0}) |->
                           Char(rules[(CHOOSE r \in covering : TRUE) + 3 + j]
                                    + (IF j = 1 THEN n - rules[(CHOOSE r \in covering : TRUE) + 1]
                                       ELSE 0))] :
                  covering \in {{r \in {6 * (k - 1) : k \in 1..(Len(rules) \div 6)} :
                                    rules[r + 1] <= n /\ n <= rules[r + 2]
                                        /\ (n - rules[r + 1]) % rules[r + 3] = 0}}} : TRUE

\* str.isspace() on one character
IsSpace(c) == c \in Spaces

\* the class \w of the re module
IsWord(c) == IF Len(c) = 1 THEN c \in AsciiWordChars ELSE InRanges(CodePoint(c), WordRanges)

\* the character of a text as a letter of a pattern sees it under re.IGNORECASE
FoldChar(c) ==
    IF Len(c) = 1 THEN ToLower[c]
    ELSE IF c \in DOMAIN CaseFold THEN CaseFold[c] ELSE c

\* str.lower() on one character: the text it becomes
LowerChar(c) ==
    IF Len(c) = 1 THEN <<ToLower[c]>>
    ELSE CaseMap(CodePoint(c), LowerRules)

\* str.capitalize() on one character: the text it becomes (its title case)
TitleChar(c) ==
    IF Len(c) = 1 THEN <<ToUpper[c]>>
    ELSE CaseMap(CodePoint(c), TitleRules)

\* going from index i to the start of s (back) or to its end, and passing over
\* the case-ignorable characters, a character is met and it is cased
RECURSIVE CasedBeyond(_, _, _)
CasedBeyond(s, i, back) ==
    IF i < 1 \/ i > Len(s) THEN FALSE
    ELSE IF InRanges(CodePoint(s[i]), CaseIgnorableRanges)
    THEN CasedBeyond(s, IF back THEN i - 1 ELSE i + 1, back)
    ELSE InRanges(CodePoint(s[i]), CasedRanges)

\* str.lower() from index i on: a capital sigma becomes the final sigma when a
\* cased character precedes it and none follows, and the small sigma otherwise
RECURSIVE LowerFrom(_, _)
LowerFrom(s, i) ==
    IF i > Len(s) THEN <<>>
    ELSE IF s[i] = "U+03A3"
    THEN <<IF CasedBeyond(s, i - 1, TRUE) /\ ~CasedBeyond(s, i + 1, FALSE)
           THEN "U+03C2" ELSE "U+03C3">> \o LowerFrom(s, i + 1)
    ELSE LowerChar(s[i]) \o LowerFrom(s, i + 1)

\* str.lower(): character by character when every character is an ASCII one
Lower(s) ==
    IF \A i \in 1..Len(s) : Len(s[i]) = 1 THEN [i \in 1..Len(s) |-> ToLower[s[i]]]
    ELSE LowerFrom(s, 1)

\* str.capitalize()
Capitalize(s) == IF s = <<>> THEN <<>> ELSE TitleChar(s[1]) \o LowerFrom(s, 2)

\* str.lstrip() and str.rstrip()
RECURSIVE LStrip(_)
LStrip(s) == IF s # <<>> /\ IsSpace(s[1]) THEN LStrip(Tail(s)) ELSE s

RECURSIVE RStrip(_)
RStrip(s) == IF s # <<>> /\ IsSpace(s[Len(s)]) THEN RStrip(SubSeq(s, 1, Len(s) - 1)) ELSE s

\* str.strip()
Strip(s) == RStrip(LStrip(s))

\* str.startswith(p)
StartsWith(s, p) == Len(p) <= Len(s) /\ \A k \in 1..Len(p) : s[k] = p[k]

\* the slice s[n:]
SliceFrom(s, n) == SubSeq(s, n + 1, Len(s))

\* the text p occurs in s at index i (1-based)
OccursAt(s, p, i) ==
    /\ i >= 1
    /\ i + Len(p) - 1 <= Len(s)
    /\ \A k \in 1..Len(p) : s[i + k - 1] = p[k]

\* `p in s`
Contains(s, p) ==
    Len(p) <= Len(s) /\ \E i \in 1..(Len(s) - Len(p) + 1) : \A k \in 1..Len(p) : s[i + k - 1] = p[k]

\* a %XX escape at index i: "%" followed by two hexadecimal digits
IsEscapeAt(s, i) ==
    /\ s[i] = "%"
    /\ i + 2 <= Len(s)
    /\ IsHex(s[i + 1])
    /\ IsHex(s[i + 2])

\* a character of the range \x00-\x7f
IsAscii(c) == Len(c) = 1 \/ CodePoint(c) < 128

\* the index of the last character of the run of ASCII characters that
\* starts at index i (urllib.parse._asciire)
RECURSIVE AsciiRunEnd(_, _)
AsciiRunEnd(s, i) == IF i < Len(s) /\ IsAscii(s[i + 1]) THEN AsciiRunEnd(s, i + 1) ELSE i

\* urllib.parse.unquote_to_bytes on the ASCII characters s[i..j]: the byte of
\* every %XX escape, and the code of every other character, a "%" that
\* starts no escape included
RECURSIVE UnquoteToBytes(_, _, _)
UnquoteToBytes(s, i, j) ==
    IF i > j THEN <<>>
    ELSE IF IsEscapeAt(s, i)
    THEN <<16 * HexValue(s[i + 1]) + HexValue(s[i + 2])>> \o UnquoteToBytes(s, i + 3, j)
    ELSE <<CodePoint(s[i])>> \o UnquoteToBytes(s, i + 1, j)

\* the number of bytes of the UTF-8 sequence a byte above 127 leads, 0 for a
\* byte that leads none
Utf8Width(lead) ==
    IF lead >= 194 /\ lead <= 223 THEN 2
    ELSE IF lead >= 224 /\ lead <= 239 THEN 3
    ELSE IF lead >= 240 /\ lead <= 244 THEN 4
    ELSE 0

\* b[k + j] continues the sequence b[k] leads: the second byte is confined
\* after the leads 0xE0, 0xED, 0xF0 and 0xF4 (no overlong form, no surrogate,
\* nothing above U+10FFFF)
Utf8Continues(b, k, j) ==
    /\ k + j <= Len(b)
    /\ b[k + j] >= (IF j = 1 /\ b[k] = 224 THEN 160 ELSE IF j = 1 /\ b[k] = 240 THEN 144 ELSE 128)
    /\ b[k + j] <= (IF j = 1 /\ b[k] = 237 THEN 159 ELSE IF j = 1 /\ b[k] = 244 THEN 143 ELSE 191)

\* how many of the bytes after b[k] continue its sequence
Utf8Continued(b, k) ==
    Cardinality({g \in 1..(Utf8Width(b[k]) - 1) : \A j \in 1..g : Utf8Continues(b, k, j)})

\* the code point of the complete sequence of b[k]
Utf8Value(b, k) ==
    IF Utf8Width(b[k]) = 2 THEN (b[k] - 192) * 64 + (b[k + 1] - 128)
    ELSE IF Utf8Width(b[k]) = 3
    THEN (b[k] - 224) * 4096 + (b[k + 1] - 128) * 64 + (b[k + 2] - 128)
    ELSE (b[k] - 240) * 262144 + (b[k + 1] - 128) * 4096 + (b[k + 2] - 128) * 64
             + (b[k + 3] - 128)

\* bytes.decode("utf-8", "replace") from index k on: a byte that leads no
\* sequence, and a sequence cut short by the end or by a byte that does not
\* continue it, become one U+FFFD
RECURSIVE Utf8Decode(_, _)
Utf8Decode(b, k) ==
    IF k > Len(b) THEN <<>>
    ELSE IF b[k] < 128 THEN <<Char(b[k])>> \o Utf8Decode(b, k + 1)
    ELSE IF Utf8Continued(b, k) = Utf8Width(b[k]) - 1
    THEN <<Char(Utf8Value(b, k))>> \o Utf8Decode(b, k + Utf8Width(b[k]))
    ELSE <<"U+FFFD">> \o Utf8Decode(b, k + 1 + Utf8Continued(b, k))

\* urllib.parse.unquote(s) from index i on: every run of ASCII characters is
\* unquoted to bytes and decoded as UTF-8, and the other characters stay
RECURSIVE UnquoteFrom(_, _)
UnquoteFrom(s, i) ==
    IF i > Len(s) THEN <<>>
    ELSE IF ~IsAscii(s[i]) THEN <<s[i]>> \o UnquoteFrom(s, i + 1)
    ELSE Utf8Decode(UnquoteToBytes(s, i, AsciiRunEnd(s, i)), 1)
             \o UnquoteFrom(s, AsciiRunEnd(s, i) + 1)

Unquote(s) == UnquoteFrom(s, 1)

\* urllib.parse.quote(s) raises UnicodeEncodeError: s holds a surrogate, which
\* str.encode("utf-8") refuses
QuoteRaises(s) ==
    \E i \in 1..Len(s) : Len(s[i]) > 1 /\ CodePoint(s[i]) >= 55296 /\ CodePoint(s[i]) <= 57343

(***************************************************************************)
(* String literals of the source                                           *)
(***************************************************************************)
FALLBACK_GIF ==
    <<"h","t","t","p","s",":","/","/","m","e","d","i","a",".","t","e","n","o","r",".","c","o",
      "m","/","4","z","F","M","a","2","o","n","E","4","4","A","A","A","A","C","/","f","u","n",
      "n","y","-","c","a","t",".","g","i","f">>
FALLBACK_MESSAGE ==
    <<"C","o","u","l","d","n","U+2019","t"," ","f","e","t","c","h"," ","a"," ","G","I","F",
      " ","d","u","e"," ","t","o"," ","n","e","t","w","o","r","k"," ","i","s","s","u","e","s",
      "."," ","H","e","r","e","U+2019","s"," ","a"," ","f","u","n","n","y"," ","c","a","t",
      " ","i","n","s","t","e","a","d","!">>
ToneSerious ==
    <<"s","e","r","i","o","u","s">>
ToneFunny ==
    <<"f","u","n","n","y">>
TonePoetic ==
    <<"p","o","e","t","i","c">>
ToneDarkHumor ==
    <<"d","a","r","k","_","h","u","m","o","r">>
PromptSerious ==
    <<"Y","o","u"," ","a","r","e"," ","a"," ","s","e","r","i","o","u","s"," ","a","n","d"," ",
      "p","r","o","f","e","s","s","i","o","n","a","l"," ","a","s","s","i","s","t","a","n","t",
      "."," ","U+1F4D8">>
PromptFunny ==
    <<"Y","o","u"," ","a","r","e"," ","a"," ","f","u","n","n","y"," ","a","n","d"," ","w","i",
      "t","t","y"," ","a","s","s","i","s","t","a","n","t"," ","U+1F602","U+2728">>
PromptPoetic ==
    <<"Y","o","u"," ","a","r","e"," ","a"," ","p","o","e","t","i","c"," ","A","I"," ","w","h",
      "o"," ","s","p","e","a","k","s"," ","i","n"," ","r","h","y","m","e","s"," ","U+1F338",
      "U+1F3B5">>
PromptDarkHumor ==
    <<"Y","o","u"," ","a","r","e"," ","a"," ","d","a","r","k","-","h","u","m","o","r","e","d",
      " ","a","s","s","i","s","t","a","n","t"," ","U+1F5A4","U+1F480","U+1F983">>
NameFactPrefix ==
    <<"T","h","e"," ","u","s","e","r","'","s"," ","n","a","m","e"," ","i","s"," ">>
MoodFactPrefix ==
    <<"T","h","e"," ","u","s","e","r"," ","m","e","n","t","i","o","n","e","d"," ","t","h","e",
      "y"," ","w","e","r","e"," ","f","e","e","l","i","n","g"," ">>
NameMarker ==
    <<"u","s","e","r","'","s"," ","n","a","m","e">>
GifPrefix ==
    <<"/","g","i","f">>
TonePrefix ==
    <<"/","t","o","n","e">>
GifTopicPrompt ==
    <<"P","l","e","a","s","e"," ","s","p","e","c","i","f","y"," ","a"," ","t","o","p","i","c",
      " ","a","f","t","e","r"," ","/","g","i","f">>
ToneNamePrompt ==
    <<"P","l","e","a","s","e"," ","s","p","e","c","i","f","y"," ","a"," ","t","o","n","e"," ",
      "a","f","t","e","r"," ","/","t","o","n","e">>
GifSuccessPrefix ==
    <<"H","e","r","e","'","s"," ","a"," ","G","I","F"," ","f","o","r"," ","y","o","u","!",
      "\n","!","[","G","I","F","]","(">>
GifOpen ==
    <<"\n","!","[","G","I","F","]","(">>
GifMissing ==
    <<"S","o","r","r","y",","," ","c","o","u","l","d","n","'","t"," ","f","i","n","d"," ","a",
      " ","s","u","i","t","a","b","l","e"," ","G","I","F"," ","f","o","r"," ","t","h","a","t",
      " ","t","o","p","i","c","."," ","T","r","y"," ","a","n","o","t","h","e","r"," ","t","o",
      "p","i","c","!">>
ToneChangedPrefix ==
    <<"T","o","n","e"," ","c","h","a","n","g","e","d"," ","t","o"," ","'">>
InvalidToneGuidance ==
    <<"I","n","v","a","l","i","d"," ","t","o","n","e","."," ","O","p","t","i","o","n","s",":",
      " ","f","u","n","n","y",","," ","s","e","r","i","o","u","s",","," ","p","o","e","t","i",
      "c",","," ","d","a","r","k","_","h","u","m","o","r",".">>
OnboardingGuidance ==
    <<"U+1F44B"," ","H","i","!"," ","C","h","o","o","s","e"," ","y","o","u","r"," ","t","o",
      "n","e",":"," ","U+0060","/","t","o","n","e"," ","f","u","n","n","y","U+0060",","," ",
      "U+0060","/","t","o","n","e"," ","s","e","r","i","o","u","s","U+0060",","," ","U+0060",
      "/","t","o","n","e"," ","p","o","e","t","i","c","U+0060",","," ","U+0060","/","t","o",
      "n","e"," ","d","a","r","k","_","h","u","m","o","r","U+0060","\n","R","e","q","u","e",
      "s","t"," ","a"," ","G","I","F"," ","w","i","t","h",":"," ","U+0060","/","g","i","f",
      " ","<","t","o","p","i","c",">","U+0060">>
MoodNotePositive ==
    <<"T","h","e"," ","u","s","e","r"," ","s","e","e","m","s"," ","h","a","p","p","y","."," ",
      "B","e"," ","p","l","a","y","f","u","l"," ","a","n","d"," ","j","o","y","f","u","l"," ",
      "i","n"," ","y","o","u","r"," ","r","e","s","p","o","n","s","e","."," ","U+1F604">>
MoodNoteNegative ==
    <<"T","h","e"," ","u","s","e","r"," ","s","e","e","m","s"," ","s","a","d","."," ","B","e",
      " ","e","m","p","a","t","h","e","t","i","c"," ","a","n","d"," ","c","o","m","f","o","r",
      "t","i","n","g"," ","i","n"," ","y","o","u","r"," ","r","e","s","p","o","n","s","e",".",
      " ","U+1F97A">>
MoodNoteNeutral ==
    <<"T","h","e"," ","u","s","e","r"," ","i","s"," ","n","e","u","t","r","a","l","."," ","R",
      "e","s","p","o","n","d"," ","n","o","r","m","a","l","l","y",".">>
QueryCelebrate ==
    <<"c","e","l","e","b","r","a","t","e">>
QueryHappy ==
    <<"h","a","p","p","y">>
QueryFunny ==
    <<"f","u","n","n","y">>
NoGifFoundPrefix ==
    <<"N","o"," ","G","I","F"," ","f","o","u","n","d"," ","f","o","r"," ","'">>
FallbackQuery ==
    <<"f","u","n","n","y">>
NameRegexLiteral ==
    <<"m","y"," ","n","a","m","e"," ","i","s"," ">>
MoodRegexI ==
    <<"I">>
MoodRegexM ==
    <<"'","m">>
MoodRegexAm ==
    <<" ","a","m">>
MoodRegexFeeling ==
    <<"f","e","e","l","i","n","g">>
MoodRegexABit ==
    <<"a"," ","b","i","t">>
LabelPositive ==
    <<"P","O","S","I","T","I","V","E">>
LabelNegative ==
    <<"N","E","G","A","T","I","V","E">>
LabelNeutral ==
    <<"N","E","U","T","R","A","L">>
Positive ==
    <<"p","o","s","i","t","i","v","e">>
Negative ==
    <<"n","e","g","a","t","i","v","e">>
TenorUrl ==
    <<"h","t","t","p","s",":","/","/","m","e","d","i","a",".","t","e","n","o","r",".","c","o",
      "m","/","c","a","t",".","g","i","f">>
TenorFunnyUrl ==
    <<"h","t","t","p","s",":","/","/","m","e","d","i","a",".","t","e","n","o","r",".","c","o",
      "m","/","l","o","l",".","g","i","f">>
MsgHello ==
    <<"h","e","l","l","o">>
MsgName ==
    <<"m","y"," ","n","a","m","e"," ","i","s"," ","a","l","i","c","e">>
MsgMood ==
    <<" ","I","'","m"," ","f","e","e","l","i","n","g"," ","s","a","d">>
MsgGif ==
    <<"/","g","i","f"," ","c","a","t","s">>
MsgToneSerious ==
    <<" ","/","T","O","N","E"," "," ","S","E","R","I","O","U","S"," ">>
MsgToneBogus ==
    <<"/","t","o","n","e"," ","b","o","g","u","s">>
ToneArgPoetic ==
    <<"U+00A0","P","o","e","t","i","c","U+000B">>
ToneArgBogus ==
    <<"b","o","g","u","s">>
ReplyText ==
    <<"S","u","r","e",".">>
TopicCats ==
    <<"c","a","t","s">>
TopicEscaped ==
    <<"f","u","n","n","y","%","2","0","c","a","t","%","7","3","%">>
TenorFunnyUrl2 ==
    <<"h","t","t","p","s",":","/","/","m","e","d","i","a",".","t","e","n","o","r",".","c","o",
      "m","/","h","a","h","a",".","g","i","f">>

TopicPeple == <<"P", "e", "p", "l", "e", "%", "2", "0">>

SaidNameBob ==
    <<"M","y"," ","n","a","m","e"," ","i","s"," ","B","O","B">>

SaidHappy ==
    <<"I"," ","a","m"," ","f","e","e","l","i","n","g"," ","H","A","P","P","Y">>

SaidStudent ==
    <<"I"," ","a","m"," ","a"," ","s","t","u","d","e","n","t">>

SaidTeacher ==
    <<"I","'","m"," ","a"," ","t","e","a","c","h","e","r">>

SaidBitcoin ==
    <<"I","'","m"," ","a"," ","b","i","t","c","o","i","n"," ","f","a","n">>

MsgAsksName ==
    <<"w","h","a","t"," ","i","s"," ","t","h","e"," ","u","s","e","r","'","s"," ","n","a","m",
      "e">>


\* Python's None: no text, since "None" is not a character
None == <<"None">>

(***************************************************************************)
(* Regular expressions of Conversation.remember                            *)
(***************************************************************************)
\* \b before index i: exactly one of s[i-1], s[i] is a \w character
WordBoundary(s, i) ==
    (i > 1 /\ i - 1 <= Len(s) /\ IsWord(s[i - 1])) # (i >= 1 /\ i <= Len(s) /\ IsWord(s[i]))

\* a literal of the pattern at index i, under re.IGNORECASE
MatchesAt(s, p, i) ==
    /\ i + Len(p) - 1 <= Len(s)
    /\ \A k \in 1..Len(p) : FoldChar(s[i + k - 1]) = FoldChar(p[k])

\* (\w+) at index i: the longest run of \w characters, <<>> when there is none
RECURSIVE WordRun(_, _)
WordRun(s, i) ==
    IF i >= 1 /\ i <= Len(s) /\ IsWord(s[i]) THEN <<s[i]>> \o WordRun(s, i + 1) ELSE <<>>

\* \s* at index i (greedy): the index of the first character that is not a space
RECURSIVE SkipSpaces(_, _)
SkipSpaces(s, i) == IF i <= Len(s) /\ IsSpace(s[i]) THEN SkipSpaces(s, i + 1) ELSE i

\* \s*(\w+) at index i: the captured word, <<>> when the match fails
SpacesThenWord(s, i) == IF i > Len(s) + 1 THEN <<>> ELSE WordRun(s, SkipSpaces(s, i))

\* group 1 of  \bmy name is (\w+)  matched at index i, <<>> when it does not match
NameGroupAt(s, i) ==
    IF MatchesAt(s, NameRegexLiteral, i) /\ WordBoundary(s, i)
    THEN WordRun(s, i + Len(NameRegexLiteral))
    ELSE <<>>

\* (?:'m| am) at index i: the index after it, 0 when neither alternative matches
MoodVerbEnd(s, i) ==
    IF MatchesAt(s, MoodRegexM, i) THEN i + Len(MoodRegexM)
    ELSE IF MatchesAt(s, MoodRegexAm, i) THEN i + Len(MoodRegexAm)
    ELSE 0

\* (?:feeling|a bit) at index q: the index after it, 0 when neither alternative matches
MoodOptionalEnd(s, q) ==
    IF MatchesAt(s, MoodRegexFeeling, q) THEN q + Len(MoodRegexFeeling)
    ELSE IF MatchesAt(s, MoodRegexABit, q) THEN q + Len(MoodRegexABit)
    ELSE 0

\* (?:feeling|a bit)?\s*(\w+) at index q, the optional group ending at r (0 when
\* it did not match): the group is taken first and given up when the rest fails
MoodWord(s, q, r) ==
    IF r # 0 /\ SpacesThenWord(s, r) # <<>> THEN SpacesThenWord(s, r)
    ELSE SpacesThenWord(s, q)

\* the pattern after (?:'m| am), which ended at index p (0 when it did not match)
MoodAfterVerb(s, p) ==
    IF p = 0 \/ ~OccursAt(s, <<" ">>, p) THEN <<>>
    ELSE MoodWord(s, p + 1, MoodOptionalEnd(s, p + 1))

\* group 1 of  \bI(?:'m| am) (?:feeling|a bit)?\s*(\w+)  matched at index i,
\* <<>> when it does not match
MoodGroupAt(s, i) ==
    IF MatchesAt(s, MoodRegexI, i) /\ WordBoundary(s, i)
    THEN MoodAfterVerb(s, MoodVerbEnd(s, i + 1))
    ELSE <<>>

\* re.search from index i on: group 1 of the leftmost match, <<>> when there is none
RECURSIVE NameSearchFrom(_, _)
NameSearchFrom(s, i) ==
    IF i > Len(s) THEN <<>>
    ELSE IF NameGroupAt(s, i) # <<>> THEN NameGroupAt(s, i)
    ELSE NameSearchFrom(s, i + 1)

RECURSIVE MoodSearchFrom(_, _)
MoodSearchFrom(s, i) ==
    IF i > Len(s) THEN <<>>
    ELSE IF MoodGroupAt(s, i) # <<>> THEN MoodGroupAt(s, i)
    ELSE MoodSearchFrom(s, i + 1)

\* re.search(r"\bmy name is (\w+)", s, re.IGNORECASE)
NameSearch(s) == NameSearchFrom(s, 1)

\* re.search(r"\bI(?:'m| am) (?:feeling|a bit)?\s*(\w+)", s, re.IGNORECASE)
MoodSearch(s) == MoodSearchFrom(s, 1)

(***************************************************************************)
(* class Conversation                                                      *)
(***************************************************************************)
TONE_PROMPTS ==
    (ToneSerious :> PromptSerious) @@ (ToneFunny :> PromptFunny) @@
    (TonePoetic :> PromptPoetic) @@ (ToneDarkHumor :> PromptDarkHumor)

Entry(role, content) == [role |-> role, content |-> content]

\* set_tone with the transcript cleared before the tone is looked up: an
\* invalid tone would then lose the transcript (the fault C4 excludes)
set_tone_clears_first(self, tone) ==
    IF Strip(Lower(tone)) \notin DOMAIN TONE_PROMPTS
    THEN [raised |-> TRUE, self |-> [self EXCEPT !.messages = <<>>]]
    ELSE [raised |-> FALSE,
          self |-> [self EXCEPT !.messages = <<Entry("system", TONE_PROMPTS[Strip(Lower(tone))])>>,
                                !.current_tone = Strip(Lower(tone)),
                                !.tone_set = TRUE]]

\* set_tone with the tone looked up as given, neither lower-cased nor stripped
\* (the fault C5 excludes)
set_tone_exact(self, tone) ==
    IF tone \notin DOMAIN TONE_PROMPTS
    THEN [raised |-> TRUE, self |-> self]
    ELSE [raised |-> FALSE,
          self |-> [self EXCEPT !.messages = <<Entry("system", TONE_PROMPTS[tone])>>,
                                !.current_tone = tone,
                                !.tone_set = TRUE]]

\* set_tone(tone) on conversation self: the object afterwards, and whether
\* ValueError was raised
set_tone(self, tone) ==
    LET tone_key == Strip(Lower(tone))
    IN  IF tone_key \notin DOMAIN TONE_PROMPTS
        THEN [raised |-> TRUE, self |-> self]
        ELSE [raised |-> FALSE,
              self |-> [self EXCEPT !.messages = <<Entry("system", TONE_PROMPTS[tone_key])>>,
                                    !.current_tone = tone_key,
                                    !.tone_set = TRUE]]

\* Conversation(tone, title) without the call of set_tone on line 87: the
\* conversation is stored with tone_set false (the fault C19 excludes)
Conversation_without_set_tone(tone, title) ==
    [raised |-> FALSE,
     self |-> [messages |-> <<>>, active |-> TRUE, tone_set |-> FALSE,
               current_tone |-> <<>>, memory |-> <<>>, title |-> title]]

\* Conversation(tone, title)
Conversation(tone, title) ==
    set_tone([messages |-> <<>>, active |-> TRUE, tone_set |-> FALSE,
              current_tone |-> <<>>, memory |-> <<>>, title |-> title], tone)

\* remember(message)
remember(self, message) ==
    LET name == NameSearch(message)
        mood == Lower(MoodSearch(message))
        m1 == IF name # <<>> THEN ("name" :> Capitalize(name)) @@ self.memory
              ELSE self.memory
        m2 == IF mood # <<>> /\ mood \notin {<<"a">>, <<"b", "i", "t">>, <<"f", "e", "e", "l", "i", "n", "g">>}
              THEN ("mood" :> mood) @@ m1
              ELSE m1
    IN  [self EXCEPT !.memory = m2]

\* list.insert(i, x) for 0 <= i
ListInsert(list, i, x) ==
    IF i >= Len(list) THEN Append(list, x)
    ELSE SubSeq(list, 1, i) \o <<x>> \o SubSeq(list, i + 1, Len(list))

\* the list memory_facts that inject_memory_context builds from self.memory
MemoryFacts(mem) ==
    (IF "name" \in DOMAIN mem THEN <<NameFactPrefix \o mem["name"] \o <<".">>>> ELSE <<>>)
    \o (IF "mood" \in DOMAIN mem
        THEN <<MoodFactPrefix \o mem["mood"] \o <<" ","e","a","r","l","i","e","r",".">>>> ELSE <<>>)

\* " ".join(parts)
JoinSpace(parts) ==
    IF Len(parts) = 0 THEN <<>>
    ELSE IF Len(parts) = 1 THEN parts[1]
    ELSE parts[1] \o <<" ">> \o parts[2]

\* inject_memory_context with the context inserted at index 0, before the
\* tone's prompt (the fault C1 excludes)
inject_memory_context_at_head(self) ==
    IF MemoryFacts(self.memory) = <<>> THEN self
    ELSE [self EXCEPT !.messages =
              ListInsert(self.messages, 0, Entry("system", JoinSpace(MemoryFacts(self.memory))))]

\* inject_memory_context()
inject_memory_context(self) ==
    LET memory_facts == MemoryFacts(self.memory)
    IN  IF memory_facts = <<>> THEN self
        ELSE [self EXCEPT !.messages =
                  ListInsert(self.messages, 1, Entry("system", JoinSpace(memory_facts)))]

(***************************************************************************)
(* get_gif_url                                                             *)
(***************************************************************************)
\* the query as lines 146-148 send it
SearchQuery(query) ==
    IF Strip(Lower(query)) = <<"p", "e", "p", "l", "e">> THEN <<"p", "e", "o", "p", "l", "e">>
    ELSE Strip(Lower(query))

\* a result of the search service that lacks ["media_formats"]["gif"]["url"]
Malformed == <<"Malformed">>

\* gif_url of line 174: the URL of random.choice(gifs), choice being the
\* index drawn; a malformed candidate raises KeyError, which line 191 turns
\* into FALLBACK_GIF
CandidateUrl(results, choice) ==
    IF results[((choice - 1) % Len(results)) + 1] = Malformed THEN FALLBACK_GIF
    ELSE results[((choice - 1) % Len(results)) + 1]

\* get_gif_url without its except clauses' return value: a failed first search
\* yields no URL (the fault C11 excludes)
get_gif_url_fails_outward(query, tenor) ==
    IF QuoteRaises(SearchQuery(query)) THEN <<>>
    ELSE IF tenor.primary.kind # "ok" THEN <<>>
    ELSE IF tenor.primary.results # <<>>
         THEN CandidateUrl(tenor.primary.results, tenor.choice)
    ELSE IF tenor.fallback.kind # "ok" THEN FALLBACK_GIF
    ELSE IF tenor.fallback.results # <<>>
         THEN CandidateUrl(tenor.fallback.results, tenor.choice)
    ELSE FALLBACK_GIF

\* get_gif_url without lines 166-172: no second search, the fixed GIF at once
\* (the fault C12 excludes)
get_gif_url_without_fallback_search(query, tenor) ==
    IF QuoteRaises(SearchQuery(query)) THEN FALLBACK_GIF
    ELSE IF tenor.primary.kind # "ok" THEN FALLBACK_GIF
    ELSE IF tenor.primary.results # <<>>
         THEN CandidateUrl(tenor.primary.results, tenor.choice)
    ELSE FALLBACK_GIF

\* get_gif_url(query) against a search service that answers the first search
\* with tenor.primary and the search for "funny" with tenor.fallback.  A reply
\* of kind "ok" carries the list data["results"], each result given by its
\* ["media_formats"]["gif"]["url"] (or Malformed); any other kind is a request
\* that ends in an exception (an error status, exhausted retries, a connection
\* failure, a timeout, a body that is not JSON), which every except clause
\* turns into FALLBACK_GIF.  tenor.choice is the index random.choice draws.
\* The reply does not depend on the query, which SearchQuery gives as it is
\* sent.  A query that urllib.parse.quote refuses on line 150 ends in the
\* except clause of line 191 before any search is sent.
get_gif_url(query, tenor) ==
    IF QuoteRaises(SearchQuery(query)) THEN FALLBACK_GIF
    ELSE IF tenor.primary.kind # "ok" THEN FALLBACK_GIF
    ELSE IF tenor.primary.results # <<>>
         THEN CandidateUrl(tenor.primary.results, tenor.choice)
    ELSE IF tenor.fallback.kind # "ok" THEN FALLBACK_GIF
    ELSE IF tenor.fallback.results # <<>>
         THEN CandidateUrl(tenor.fallback.results, tenor.choice)
    ELSE FALLBACK_GIF

\* the queries of the searches get_gif_url(query) sends (lines 159 and 169)
GifSearches(query, tenor) ==
    IF QuoteRaises(SearchQuery(query)) THEN <<>>
    ELSE IF tenor.primary.kind = "ok" /\ tenor.primary.results = <<>>
    THEN <<SearchQuery(query), FallbackQuery>>
    ELSE <<SearchQuery(query)>>

(***************************************************************************)
(* POST /chat/                                                             *)
(***************************************************************************)
\* random.random() < 0.3, with the draw counted in tenths
GifChanceTenths == 3

\* what a handler leaves behind: the conversation, the HTTP status, the
\* "response" and "gif" fields of the body (None when absent or null), the
\* number of completion calls made and the queries passed to get_gif_url
Outcome(self, status, response, gif, completions, fetches) ==
    [self |-> self, status |-> status, response |-> response, gif |-> gif,
     completions |-> completions, fetches |-> fetches]

\* sentiment_analyzer(user_msg) of line 256 raising instead of answering a
\* label, as the pipeline does for a text longer than its model accepts
Raises == <<"Raises">>

\* the mood note chosen from the classifier's label
MoodNote(sentiment) ==
    IF sentiment = Positive THEN MoodNotePositive
    ELSE IF sentiment = Negative THEN MoodNoteNegative
    ELSE MoodNoteNeutral

\* the /gif branch without the user's entry: only the assistant's entry is
\* appended (the fault C8 excludes)
gif_command_reply_only(self, user_msg, tenor) ==
    IF Strip(SliceFrom(user_msg, 5)) = <<>> THEN Outcome(self, 200, GifTopicPrompt, None, 0, <<>>)
    ELSE Outcome([self EXCEPT !.messages =
                      Append(@, Entry("assistant",
                                      GifSuccessPrefix \o get_gif_url(Strip(SliceFrom(user_msg, 5)), tenor)
                                          \o <<")">>))],
                 200, GifSuccessPrefix \o get_gif_url(Strip(SliceFrom(user_msg, 5)), tenor) \o <<")">>,
                 get_gif_url(Strip(SliceFrom(user_msg, 5)), tenor), 0,
                 <<Strip(SliceFrom(user_msg, 5))>>)

\* the branch `if user_msg.lower().startswith("/gif")`
gif_command(self, user_msg, tenor) ==
    LET topic == Strip(SliceFrom(user_msg, 5))
        gif_url == get_gif_url(topic, tenor)
        response == IF gif_url = FALLBACK_GIF
                    THEN FALLBACK_MESSAGE \o GifOpen \o gif_url \o <<")">>
                    ELSE IF gif_url # <<>> THEN GifSuccessPrefix \o gif_url \o <<")">>
                    ELSE GifMissing
    IN  IF topic = <<>> THEN Outcome(self, 200, GifTopicPrompt, None, 0, <<>>)
        ELSE Outcome([self EXCEPT !.messages =
                          @ \o <<Entry("user", GifPrefix \o <<" ">> \o topic),
                                 Entry("assistant", response)>>],
                     200, response, IF gif_url # <<>> THEN gif_url ELSE None, 0, <<topic>>)

\* the branch `if user_msg.lower().startswith("/tone")`
tone_command(self, user_msg, tenor) ==
    LET tone == Strip(SliceFrom(user_msg, 5))
        changed == set_tone(self, tone)
        gif_url == IF tone = ToneFunny THEN get_gif_url(QueryCelebrate, tenor) ELSE <<>>
        said == ToneChangedPrefix \o tone \o <<"'">>
        response == IF gif_url = FALLBACK_GIF
                    THEN said \o <<"\n">> \o FALLBACK_MESSAGE \o GifOpen \o gif_url \o <<")">>
                    ELSE said \o (IF gif_url # <<>> THEN GifOpen \o gif_url \o <<")">> ELSE <<>>)
    IN  IF tone = <<>> THEN Outcome(self, 200, ToneNamePrompt, None, 0, <<>>)
        ELSE IF changed.raised
             THEN Outcome(changed.self, 200, InvalidToneGuidance, None, 0, <<>>)
        ELSE Outcome([changed.self EXCEPT !.messages = Append(@, Entry("assistant", response))],
                     200, response, IF gif_url # <<>> THEN gif_url ELSE None, 0,
                     IF tone = ToneFunny THEN <<QueryCelebrate>> ELSE <<>>)

\* the condition of line 266: memory is not empty and no entry's content
\* contains "user's name"
ShouldInject(self) ==
    /\ DOMAIN self.memory # {}
    /\ ~\E i \in 1..Len(self.messages) : Contains(self.messages[i].content, NameMarker)

\* lines 253-270 with the mood note left out of the stored transcript (the
\* fault the amended C10 excludes)
assemble_prompt_without_note(self, message, role, sentiment) ==
    [remember(self, Strip(message)) EXCEPT !.messages = Append(@, Entry(role, message))]

\* lines 253-270: remember, the memory context, the mood note, the user's entry
assemble_prompt(self, message, role, sentiment) ==
    LET remembered == remember(self, Strip(message))
        injected == IF ShouldInject(remembered) THEN inject_memory_context(remembered)
                    ELSE remembered
    IN  [injected EXCEPT !.messages =
             @ \o <<Entry("system", MoodNote(sentiment)), Entry(role, message)>>]

\* lines 272-286 with a failed completion call answered by the fallback
\* message instead of raised (the fault C9 excludes)
complete_turn_swallows_failure(self, sentiment, groq, draw, tenor) ==
    IF groq.kind # "ok"
    THEN Outcome([self EXCEPT !.messages = Append(@, Entry("assistant", FALLBACK_MESSAGE))],
                 200, FALLBACK_MESSAGE, None, 1, <<>>)
    ELSE Outcome([self EXCEPT !.messages = Append(@, Entry("assistant", groq.text))],
                 200, groq.text, None, 1, <<>>)

\* lines 272-286 without the draw of line 276: every turn of positive
\* sentiment or funny tone is decorated (the fault C13 excludes)
complete_turn_ignores_draw(self, sentiment, groq, draw, tenor) ==
    IF groq.kind # "ok" THEN Outcome(self, 500, None, None, 1, <<>>)
    ELSE IF sentiment = Positive \/ self.current_tone = ToneFunny
    THEN Outcome([self EXCEPT !.messages =
                      Append(@, Entry("assistant", groq.text \o GifOpen \o FALLBACK_GIF \o <<")">>))],
                 200, groq.text \o GifOpen \o FALLBACK_GIF \o <<")">>, FALLBACK_GIF, 1,
                 <<IF sentiment = Positive THEN QueryHappy ELSE QueryFunny>>)
    ELSE Outcome([self EXCEPT !.messages = Append(@, Entry("assistant", groq.text))],
                 200, groq.text, None, 1, <<>>)

\* lines 272-286 with a failed completion call rolled back: the mood note
\* and the user's entry are taken off the transcript before the error is
\* raised (the fault C20 excludes)
complete_turn_rolls_back(self, sentiment, groq, draw, tenor) ==
    IF groq.kind # "ok"
    THEN Outcome([self EXCEPT !.messages = SubSeq(@, 1, Len(@) - 2)], 500, None, None, 1, <<>>)
    ELSE Outcome([self EXCEPT !.messages = Append(@, Entry("assistant", groq.text))],
                 200, groq.text, None, 1, <<>>)

\* lines 272-286: the completion call, the optional GIF, the assistant's entry.
\* groq is the completion service's answer: kind "ok" with its text, or an error
complete_turn(self, sentiment, groq, draw, tenor) ==
    LET decorate == (sentiment = Positive \/ self.current_tone = ToneFunny)
                    /\ draw < GifChanceTenths
        gif_query == IF sentiment = Positive THEN QueryHappy ELSE QueryFunny
        gif_url == IF decorate THEN get_gif_url(gif_query, tenor) ELSE None
        response == IF gif_url = None \/ gif_url = <<>> THEN groq.text
                    ELSE IF gif_url = FALLBACK_GIF
                    THEN groq.text \o <<"\n">> \o FALLBACK_MESSAGE \o GifOpen \o gif_url \o <<")">>
                    ELSE groq.text \o GifOpen \o gif_url \o <<")">>
    IN  IF groq.kind # "ok" THEN Outcome(self, 500, None, None, 1, <<>>)
        ELSE Outcome([self EXCEPT !.messages = Append(@, Entry("assistant", response))],
                     200, response, IF gif_url = <<>> THEN None ELSE gif_url, 1,
                     IF decorate THEN <<gif_query>> ELSE <<>>)

\* the body of chat() once the conversation is looked up.  label is what the
\* classifier answers; when it raises, the request ends with status 500 after
\* line 253 has remembered the utterance and before anything is appended
chat(self, message, role, label, groq, draw, tenor) ==
    LET user_msg == Strip(message)
        sentiment == Lower(label)
    IN  IF ~self.active THEN Outcome(self, 400, None, None, 0, <<>>)
        ELSE IF StartsWith(Lower(user_msg), GifPrefix) THEN gif_command(self, user_msg, tenor)
        ELSE IF StartsWith(Lower(user_msg), TonePrefix) THEN tone_command(self, user_msg, tenor)
        ELSE IF ~self.tone_set THEN Outcome(self, 200, OnboardingGuidance, None, 0, <<>>)
        ELSE IF label = Raises THEN Outcome(remember(self, user_msg), 500, None, None, 0, <<>>)
        ELSE complete_turn(assemble_prompt(self, message, role, sentiment),
                           sentiment, groq, draw, tenor)

\* [msg for msg in messages if msg["role"] in ["user", "assistant"]], as
\* {"sender", "text"} records
RECURSIVE History(_)
History(messages) ==
    IF messages = <<>> THEN <<>>
    ELSE (IF messages[1].role \in {"user", "assistant"}
          THEN <<[sender |-> messages[1].role, text |-> messages[1].content]>>
          ELSE <<>>) \o History(Tail(messages))

\* the body of list_chats(): one record per key of the dict, in its order
Listing(convs, keys) ==
    [i \in 1..Len(keys) |-> [conversation_id |-> keys[i], title |-> convs[keys[i]].title,
                             tone |-> convs[keys[i]].current_tone]]

(***************************************************************************)
(* Requests and the behaviour of the external services                     *)
(***************************************************************************)
\* a transcript is followed up to this many entries: in the registry scope,
\* in the dialogue scope and in the command scope
MaxMsgs == 4

MaxDialogue == 9

MaxCommand == 4

MaxFetch == 4

MaxMarker == 8

GroqAnswers == {[kind |-> "error", text |-> <<>>], [kind |-> "ok", text |-> ReplyText]}

\* what one search can answer: a failure, no result, one result with its URL,
\* one result whose URL is the empty string, or one malformed result
TenorReplies(url) ==
    {[kind |-> "error", results |-> <<>>], [kind |-> "ok", results |-> <<>>],
     [kind |-> "ok", results |-> <<url>>], [kind |-> "ok", results |-> << <<>> >>],
     [kind |-> "ok", results |-> <<Malformed>>]}

\* the search for "funny" can also answer two results
FallbackReplies ==
    TenorReplies(TenorFunnyUrl) \cup {[kind |-> "ok", results |-> <<TenorFunnyUrl, TenorFunnyUrl2>>]}

\* the second search is made only when the first one returns no result, and
\* the draw matters only among several results: in every other case one
\* second reply and one draw stand for all
TenorBehaviours ==
    {t \in [primary : TenorReplies(TenorUrl), fallback : FallbackReplies, choice : {1, 2}] :
        /\ (t.primary.kind # "ok" \/ t.primary.results # <<>>) => t.fallback.kind = "error"
        /\ t.choice = 2 => t.primary.results = <<>> /\ Len(t.fallback.results) = 2}

TenorDown == [primary |-> [kind |-> "error", results |-> <<>>],
              fallback |-> [kind |-> "error", results |-> <<>>], choice |-> 1]

\* the services' behaviour during one chat turn.  The draw and the search
\* service are not consulted when the completion call fails, nor the search
\* service when the draw is not below the chance: one value stands for all
TurnEnvs(draws, tenors) ==
    {e \in [groq : GroqAnswers, draw : draws, tenor : tenors \cup {TenorDown}] :
        /\ e.groq.kind # "ok" => e.draw = GifChanceTenths
        /\ e.draw >= GifChanceTenths => e.tenor = TenorDown
        /\ e.draw < GifChanceTenths => e.tenor \in tenors}

\* The requests followed, in five scopes.  The registry scope: two
\* conversations and every handler, with one kind of chat turn.  The dialogue
\* scope: one conversation over several turns, commands and tone switches.  The command
\* scope: one conversation, every command and every behaviour of the search
\* service, the draw and the classifier.  The fetch scope: GET /gifs over every
\* behaviour of the search service, beside one short conversation.  The marker
\* scope: one conversation whose user asks for "the user's name" and gives a name.
\* In the registry, dialogue and marker scopes the classifier raises on one of
\* the turns.
Registry ==
    [ids |-> {"c1", "c2"},
     max |-> MaxMsgs,
     turns |-> {[message |-> MsgHello, role |-> "user", label |-> LabelPositive],
                [message |-> MsgHello, role |-> "user", label |-> Raises]},
     draws |-> {3},
     tenors |-> {TenorDown},
     commands |-> {MsgGif, MsgToneSerious, MsgToneBogus},
     tones |-> {ToneArgPoetic, ToneArgBogus},
     topics |-> {TopicCats},
     gif_tenors |-> {TenorDown},
     titles |-> {"Work"},
     new_titles |-> {"Home"}]

Dialogue ==
    [ids |-> {"c1"},
     max |-> MaxDialogue,
     turns |-> {[message |-> MsgHello, role |-> "user", label |-> LabelNeutral],
                [message |-> MsgName, role |-> "user", label |-> LabelPositive],
                [message |-> MsgMood, role |-> "user", label |-> LabelNegative],
                [message |-> MsgHello, role |-> "user", label |-> Raises]},
     draws |-> {3},
     tenors |-> {TenorDown},
     commands |-> {MsgGif, MsgToneSerious, MsgToneBogus},
     tones |-> {ToneFunny, ToneArgBogus},
     topics |-> {TopicCats},
     gif_tenors |-> {TenorDown},
     titles |-> {"New Chat"},
     new_titles |-> {"Home"}]

Command ==
    [ids |-> {"c1"},
     max |-> MaxCommand,
     turns |-> {[message |-> MsgHello, role |-> "user", label |-> LabelPositive],
                [message |-> MsgHello, role |-> "user", label |-> LabelNeutral],
                [message |-> MsgHello, role |-> "user", label |-> LabelNegative]},
     draws |-> {2, 3},
     tenors |-> TenorBehaviours,
     \* "/gif cats", "/gif " and "/gif cats" with a lone surrogate after it (as
     \* json.loads gives for an unpaired \uXXXX escape of the request body);
     \* "/tone funny", "/tone Funny", " /TONE  SERIOUS ", "/tone bogus", "/tone"
     commands |-> {MsgGif,
                   <<"/","g","i","f"," ">>,
                   <<"/","g","i","f"," ","c","a","t","s","U+DFFF">>,
                   <<"/","t","o","n","e"," ","f","u","n","n","y">>,
                   <<"/","t","o","n","e"," ","F","u","n","n","y">>,
                   MsgToneSerious, MsgToneBogus,
                   <<"/","t","o","n","e">>},
     tones |-> {ToneFunny, ToneSerious, ToneArgPoetic, ToneArgBogus},
     topics |-> {TopicCats},
     gif_tenors |-> {TenorDown},
     titles |-> {"New Chat"},
     new_titles |-> {"Home"}]

Marker ==
    [ids |-> {"c1"},
     max |-> MaxMarker,
     turns |-> {[message |-> MsgAsksName, role |-> "user", label |-> LabelNeutral],
                [message |-> MsgName, role |-> "user", label |-> LabelPositive],
                [message |-> MsgName, role |-> "user", label |-> Raises]},
     draws |-> {3},
     tenors |-> {TenorDown},
     commands |-> {MsgToneSerious},
     tones |-> {ToneFunny},
     topics |-> {TopicCats},
     gif_tenors |-> {TenorDown},
     titles |-> {"New Chat"},
     new_titles |-> {"Home"}]

Fetch ==
    [ids |-> {"c1"},
     max |-> MaxFetch,
     turns |-> {[message |-> MsgHello, role |-> "user", label |-> LabelPositive]},
     draws |-> {3},
     tenors |-> {TenorDown},
     commands |-> {MsgGif, MsgToneSerious},
     tones |-> {ToneFunny},
     topics |-> {TopicCats, TopicEscaped, TopicPeple,
                 \* escapes of a control character, of the two bytes of U+00E9 and
                 \* of a byte that is no UTF-8: "%0Acaf%C3%a9%80", which unquoted
                 \* is a line feed, "caf", U+00E9 and U+FFFD
                 <<"%","0","A","c","a","f","%","C","3","%","a","9","%","8","0">>},
     gif_tenors |-> TenorBehaviours,
     titles |-> {"New Chat"},
     new_titles |-> {"Home"}]

(***************************************************************************)
(* The registry and the handlers                                           *)
(***************************************************************************)
\* the last request and its outcome.  label and groq are what the classifier
\* and the completion service answer during a chat request, searches the
\* queries sent to the search service, tenor that service's behaviour during
\* GET /gifs ("none" elsewhere), draw the value of random.random() in tenths
\* during a chat request (0 elsewhere)
Request(op, cid, message, out) ==
    [op |-> op, cid |-> cid, message |-> message, label |-> <<>>, groq |-> "none",
     status |-> out.status, response |-> out.response, gif |-> out.gif,
     completions |-> out.completions, fetches |-> out.fetches, searches |-> <<>>,
     tenor |-> "none", draw |-> 0]

NoOutcome(status, response) == Outcome(<<>>, status, response, None, 0, <<>>)

\* a request slot that holds no request
NoTask == [pc |-> "none", cid |-> "", message |-> <<>>, role |-> "", label |-> <<>>, at |-> 0]

Init ==
    /\ conversations = <<>>
    /\ order = <<>>
    /\ last = Request("start", "", <<>>, NoOutcome(200, None))
    /\ inflight = [s \in {"r1", "r2"} |-> NoTask]

\* GET /gifs/{topic}: the body {"topic", "gif_url", "message"} as the
\* outcome's message, gif and response, or 404 with its detail as response
get_gif(topic, tenor) ==
    \E unquoted \in {Unquote(topic)} :
        \E gif_url \in {get_gif_url(unquoted, tenor)} :
            /\ last' =
                   [(IF gif_url = FALLBACK_GIF
                     THEN Request("gif", "", unquoted,
                                  Outcome(<<>>, 200, FALLBACK_MESSAGE, FALLBACK_GIF, 0, <<unquoted>>))
                     ELSE IF gif_url = <<>>
                     THEN Request("gif", "", unquoted,
                                  Outcome(<<>>, 404,
                                          NoGifFoundPrefix \o unquoted
                                              \o <<"'","."," ","T","r","y"," ","a","n","o","t",
                                                    "h","e","r"," ","t","o","p","i","c","!">>,
                                          None, 0, <<unquoted>>))
                     ELSE Request("gif", "", unquoted,
                                  Outcome(<<>>, 200, None, gif_url, 0, <<unquoted>>)))
                    EXCEPT !.searches = GifSearches(unquoted, tenor), !.tenor = tenor]
            /\ UNCHANGED <<conversations, order>>

\* get_or_create_conversation(cid): the dict and its key order afterwards
get_or_create_conversation(convs, keys, cid) ==
    IF cid \notin DOMAIN convs
    THEN [convs |-> (cid :> Conversation(ToneFunny, "New Chat").self) @@ convs,
          keys |-> Append(keys, cid)]
    ELSE [convs |-> convs, keys |-> keys]

\* POST /chat/ with {message, role, conversation_id: cid}
Chat(max, cid, message, role, label, groq, draw, tenor) ==
    \E got \in {get_or_create_conversation(conversations, order, cid)} :
        \E out \in {chat(got.convs[cid], message, role, label, groq, draw, tenor)} :
            /\ Len(out.self.messages) <= max
            /\ conversations' = [got.convs EXCEPT ![cid] = out.self]
            /\ order' = got.keys
            /\ last' = [Request("chat", cid, message, out) EXCEPT
                            !.label = label,
                            !.groq = IF out.completions = 0 THEN "none" ELSE groq.kind,
                            !.draw = draw,
                            !.searches = IF out.fetches = <<>> THEN <<>>
                                         ELSE GifSearches(out.fetches[1], tenor)]

\* POST /chat/new/ without the test for an existing id: the conversation
\* stored under the id is replaced (the fault C6 excludes)
new_chat_overwrite(cid, tone, title) ==
    IF Conversation(tone, title).raised
    THEN /\ last' = Request("new", cid, tone, NoOutcome(500, None))
         /\ UNCHANGED <<conversations, order>>
    ELSE /\ conversations' = (cid :> Conversation(tone, title).self) @@ conversations
         /\ order' = IF cid \in DOMAIN conversations THEN order ELSE Append(order, cid)
         /\ last' = Request("new", cid, tone, NoOutcome(200, None))

\* POST /chat/new/ with {conversation_id: cid, tone, title}
new_chat(cid, tone, title) ==
    LET made == Conversation(tone, title)
    IN  IF cid \in DOMAIN conversations
        THEN /\ last' = Request("new", cid, tone, NoOutcome(400, None))
             /\ UNCHANGED <<conversations, order>>
        ELSE IF made.raised
        THEN /\ last' = Request("new", cid, tone, NoOutcome(500, None))
             /\ UNCHANGED <<conversations, order>>
        ELSE /\ conversations' = (cid :> made.self) @@ conversations
             /\ order' = Append(order, cid)
             /\ last' = Request("new", cid, tone, NoOutcome(200, None))

\* GET /chat/list/
list_chats ==
    /\ last' = Request("list", "", <<>>, NoOutcome(200, Listing(conversations, order)))
    /\ UNCHANGED <<conversations, order>>

\* d.clear() in place of del d[k]: every conversation is dropped (the fault
\* C14 excludes)
DictClear(d, k) == [x \in {} |-> d[x]]

\* del d[k]
DictDelete(d, k) == [x \in DOMAIN d \ {k} |-> d[x]]

\* DELETE /chat/delete/{cid}
delete_chat(cid) ==
    IF cid \notin DOMAIN conversations
    THEN /\ last' = Request("delete", cid, <<>>, NoOutcome(404, None))
         /\ UNCHANGED <<conversations, order>>
    ELSE /\ conversations' = DictDelete(conversations, cid)
         /\ order' = SelectSeq(order, LAMBDA x : x # cid)
         /\ last' = Request("delete", cid, <<>>, NoOutcome(200, None))

\* PUT /chat/rename/ looking the conversation up with
\* get_or_create_conversation: an unknown id is created (the fault C7 excludes)
rename_chat_upsert(cid, new_title) ==
    /\ conversations' =
           [get_or_create_conversation(conversations, order, cid).convs
                EXCEPT ![cid].title = new_title]
    /\ order' = get_or_create_conversation(conversations, order, cid).keys
    /\ last' = Request("rename", cid, <<>>, NoOutcome(200, None))

\* PUT /chat/rename/ with {conversation_id: cid, new_title}
rename_chat(cid, new_title) ==
    IF cid \notin DOMAIN conversations
    THEN /\ last' = Request("rename", cid, <<>>, NoOutcome(404, None))
         /\ UNCHANGED <<conversations, order>>
    ELSE /\ conversations' = [conversations EXCEPT ![cid].title = new_title]
         /\ last' = Request("rename", cid, <<>>, NoOutcome(200, None))
         /\ UNCHANGED order

\* GET /chat/history/?conversation_id=cid
get_chat_history(cid) ==
    /\ last' = IF cid \notin DOMAIN conversations
               THEN Request("history", cid, <<>>, NoOutcome(404, None))
               ELSE Request("history", cid, <<>>,
                            NoOutcome(200, History(conversations[cid].messages)))
    /\ UNCHANGED <<conversations, order>>

\* a command consults neither the classifier nor the completion service nor the
\* draw, so one value of each stands for all of them; and only /gif and
\* "/tone funny" reach get_gif_url, so for the other commands one behaviour
\* of the search service stands for all.  So does, for a topic that
\* urllib.parse.quote refuses, the service that would answer the search
ChatCommand(sc) ==
    \E cid \in sc.ids, message \in sc.commands, tenor \in sc.tenors :
        /\ QuoteRaises(message) => tenor.primary.results = <<TenorUrl>>
        /\ \/ tenor = TenorDown
           \/ StartsWith(Lower(Strip(message)), GifPrefix)
           \/ Strip(SliceFrom(Strip(message), 5)) = ToneFunny
        /\ Chat(sc.max, cid, message, "user", LabelNeutral, [kind |-> "error", text |-> <<>>],
                GifChanceTenths, tenor)

\* a turn reaches get_gif_url only for a positive label or in the funny tone
\* (line 276): for the other turns one behaviour of the search service stands
\* for all; and a turn whose classifier raises consults no other service
ChatTurn(sc) ==
    \E cid \in sc.ids, t \in sc.turns, e \in TurnEnvs(sc.draws, sc.tenors) :
        /\ t.label = Raises => e.groq.kind # "ok"
        /\ \/ e.tenor = TenorDown
           \/ t.label # Raises /\ Lower(t.label) = Positive
           \/ get_or_create_conversation(conversations, order, cid).convs[cid].current_tone
                  = ToneFunny
        /\ Chat(sc.max, cid, t.message, t.role, t.label, e.groq, e.draw, e.tenor)

NewChat(sc) == \E cid \in sc.ids, tone \in sc.tones, title \in sc.titles : new_chat(cid, tone, title)

DeleteChat(sc) == \E cid \in sc.ids : delete_chat(cid)

RenameChat(sc) == \E cid \in sc.ids, new_title \in sc.new_titles : rename_chat(cid, new_title)

GetChatHistory(sc) == \E cid \in sc.ids : get_chat_history(cid)

GetGif(sc) == \E topic \in sc.topics, tenor \in sc.gif_tenors : get_gif(topic, tenor)

\* what remember is applied to: the messages of the turns, and utterances
\* naming a name, a mood (also after "a bit"), an article with a noun, a
\* stop-word, both facts, a name and a mood in characters that are not ASCII
Utterances ==
    {MsgHello, MsgName, MsgMood, SaidNameBob, SaidHappy, SaidStudent, SaidTeacher, SaidBitcoin,
     <<"I", "'", "m", " ", "f", "e", "e", "l", "i", "n", "g", " ", "a">>,
     <<"s", "o", " ", "i", " ", "A", "M", " ", "a", " ", "b", "i", "t", " ", "G", "l", "a", "d", ".">>,
     <<"H", "i", " ", "I", " ", "a", "m", " ", "t", "i", "r", "e", "d", " ", "a", "n", "d", " ",
       "m", "y", " ", "n", "a", "m", "e", " ", "i", "s", " ", "c", "a", "r", "o", "l">>,
     <<"M", "Y", " ", "N", "A", "M", "E", " ", "I", "U+017F", " ", "U+00E9", "L", "A", "N">>,
     <<"U+0130", " ", "a", "m", " ", "U+000B", "U+00C9", "M", "U", ".">>}

\* conversation.remember(message) on the conversation stored under cid
Remember(cid, message) ==
    /\ cid \in DOMAIN conversations
    /\ conversations' = [conversations EXCEPT ![cid] = remember(@, message)]
    /\ last' = Request("remember", cid, message, NoOutcome(200, None))
    /\ UNCHANGED <<order, inflight>>

\* Requests in flight.  chat() is declared async (line 208): the event loop
\* runs one coroutine at a time, from where it stands to its next await or to
\* its return, and takes up another one only then.  inflight holds, for each
\* of two requests, how far its turn has got: pc is "none" (no request),
\* "ready" (the request is received and its handler has not started) or
\* "completion" (lines 209-270 are done and the completion call of line 272 is
\* made and has not returned); at is the index, in the transcript, of the
\* user entry the turn appended on line 270.

\* the completion call awaited, as with an asynchronous client: the event
\* loop takes up other handlers while a turn waits for its completion (the
\* fault C18, amended, excludes)
AwaitsCompletionCall == {"completion"}

\* the positions at which chat() awaits.  Lines 208-286 hold no await: the
\* classifier (line 256), query_groq_api (line 272) and get_gif_url (line
\* 278) are plain calls of synchronous code
Awaits == {}

\* the event loop can run the handler of request slot (of a request that is
\* in no slot, for a slot that tasks does not have): every other handler that
\* has started has returned or stands at an await
LoopFree(tasks, slot) ==
    \A s \in DOMAIN tasks \ {slot} : tasks[s].pc \in {"none", "ready"} \cup Awaits

\* the registry and the requests as one record, and the step to such a record
State == [conversations |-> conversations, order |-> order, last |-> last, inflight |-> inflight]

Becomes(sys) ==
    /\ conversations' = sys.conversations
    /\ order' = sys.order
    /\ last' = sys.last
    /\ inflight' = sys.inflight

\* the states sys can step to when a POST /chat/ with a turn of the scope is
\* received: the request waits for the event loop
Receive(sc, sys) ==
    {[sys EXCEPT !.inflight[s] = [pc |-> "ready", cid |-> cid, message |-> t.message,
                                  role |-> t.role, label |-> t.label, at |-> 0]] :
        s \in {r \in DOMAIN sys.inflight : sys.inflight[r].pc = "none"},
        cid \in sc.ids, t \in sc.turns}

\* the states sys can step to when the event loop starts the handler of a
\* request that waits: lines 209-270 of the turn.  The conversation is looked
\* up; a conversation that is not active ends the request with status 400
\* (line 212) and one whose tone is not set with the onboarding text (lines
\* 247-251), nothing appended.  Otherwise the utterance is remembered, the
\* prompt assembled and the completion call made.  When the classifier raises
\* on line 256 the request ends there with status 500, the utterance
\* remembered
BeginTurn(sys) ==
    {LET task == sys.inflight[s]
         got == get_or_create_conversation(sys.conversations, sys.order, task.cid)
         self == assemble_prompt(got.convs[task.cid], task.message, task.role, Lower(task.label))
     IN  IF ~got.convs[task.cid].active \/ ~got.convs[task.cid].tone_set
         THEN [conversations |-> got.convs,
               order |-> got.keys,
               last |-> [Request("chat", task.cid, task.message,
                                 IF ~got.convs[task.cid].active THEN NoOutcome(400, None)
                                 ELSE NoOutcome(200, OnboardingGuidance))
                             EXCEPT !.label = task.label],
               inflight |-> [sys.inflight EXCEPT ![s] = NoTask]]
         ELSE IF task.label = Raises
         THEN [conversations |-> [got.convs EXCEPT
                                      ![task.cid] = remember(@, Strip(task.message))],
               order |-> got.keys,
               last |-> [Request("chat", task.cid, task.message, NoOutcome(500, None))
                             EXCEPT !.label = task.label],
               inflight |-> [sys.inflight EXCEPT ![s] = NoTask]]
         ELSE [conversations |-> [got.convs EXCEPT ![task.cid] = self],
               order |-> got.keys,
               last |-> sys.last,
               inflight |-> [sys.inflight EXCEPT ![s].pc = "completion",
                                                 ![s].at = Len(self.messages)]] :
        s \in {r \in DOMAIN sys.inflight :
                 /\ sys.inflight[r].pc = "ready"
                 /\ LoopFree(sys.inflight, r)
                 /\ ~StartsWith(Lower(Strip(sys.inflight[r].message)), GifPrefix)
                 /\ ~StartsWith(Lower(Strip(sys.inflight[r].message)), TonePrefix)}}

\* the states sys can step to when the completion call of a turn returns or
\* raises: lines 272-286 of the turn, on the conversation object the handler
\* looked up
EndTurn(sc, sys) ==
    {LET task == sys.inflight[s]
         out == complete_turn(sys.conversations[task.cid], Lower(task.label),
                              e.groq, e.draw, e.tenor)
     IN  [conversations |-> [sys.conversations EXCEPT ![task.cid] = out.self],
          order |-> sys.order,
          last |-> [Request("chat", task.cid, task.message, out) EXCEPT
                        !.label = task.label,
                        !.groq = e.groq.kind,
                        !.draw = e.draw,
                        !.searches = IF out.fetches = <<>> THEN <<>>
                                     ELSE GifSearches(out.fetches[1], e.tenor)],
          inflight |-> [sys.inflight EXCEPT ![s] = NoTask]] :
        s \in {r \in DOMAIN sys.inflight :
                 sys.inflight[r].pc = "completion" /\ LoopFree(sys.inflight, r)},
        e \in TurnEnvs(sc.draws, sc.tenors)}

\* the requests of a scope with the turns in flight: a turn is received,
\* started and ended in three steps, and every other handler runs in one step
\* when the event loop can take it up
StepInFlight(sc) ==
    \/ \E sys \in Receive(sc, State) : Becomes(sys)
    \/ \E sys \in BeginTurn(State) :
           /\ \A s \in DOMAIN sys.inflight :
                  sys.inflight[s].pc = "completion" => sys.inflight[s].at < sc.max
           /\ Becomes(sys)
    \/ \E sys \in EndTurn(sc, State) : Becomes(sys)
    \/ LoopFree(inflight, "") /\ ChatCommand(sc) /\ UNCHANGED inflight
    \/ LoopFree(inflight, "") /\ NewChat(sc) /\ UNCHANGED inflight
    \/ LoopFree(inflight, "") /\ list_chats /\ UNCHANGED inflight
    \/ LoopFree(inflight, "") /\ DeleteChat(sc) /\ UNCHANGED inflight
    \/ LoopFree(inflight, "") /\ RenameChat(sc) /\ UNCHANGED inflight
    \/ LoopFree(inflight, "") /\ GetChatHistory(sc) /\ UNCHANGED inflight
    \/ LoopFree(inflight, "") /\ GetGif(sc) /\ UNCHANGED inflight

\* the requests of a scope, each handler in one step
Step(sc) ==
    \/ ChatCommand(sc) /\ UNCHANGED inflight
    \/ ChatTurn(sc) /\ UNCHANGED inflight
    \/ NewChat(sc) /\ UNCHANGED inflight
    \/ list_chats /\ UNCHANGED inflight
    \/ DeleteChat(sc) /\ UNCHANGED inflight
    \/ RenameChat(sc) /\ UNCHANGED inflight
    \/ GetChatHistory(sc) /\ UNCHANGED inflight
    \/ GetGif(sc) /\ UNCHANGED inflight

Spec == Init /\ [][Step(Registry)]_vars

SpecDialogue == Init /\ [][Step(Dialogue)]_vars

SpecCommand == Init /\ [][Step(Command)]_vars

SpecFetch == Init /\ [][Step(Fetch)]_vars

SpecMarker == Init /\ [][Step(Marker)]_vars

SpecInFlight == Init /\ [][StepInFlight(Marker)]_vars

\* remember alone, on one conversation as Conversation() constructs it
SpecRemember ==
    /\ conversations = ("c1" :> Conversation(ToneFunny, "New Chat").self)
    /\ order = <<"c1">>
    /\ last = Request("start", "", <<>>, NoOutcome(200, None))
    /\ inflight = [s \in {"r1", "r2"} |-> NoTask]
    /\ [][\E message \in Utterances : Remember("c1", message)]_vars

(***************************************************************************)
(* Properties                                                              *)
(***************************************************************************)
\* how chat() reads a message: a /gif command, a /tone command, or a turn
IsGifCommand(message) == StartsWith(Lower(Strip(message)), GifPrefix)

IsToneCommand(message) ==
    ~IsGifCommand(message) /\ StartsWith(Lower(Strip(message)), TonePrefix)

IsTurn(message) == ~IsGifCommand(message) /\ ~IsToneCommand(message)

\* the text after the command word
CommandArgument(message) == Strip(SliceFrom(Strip(message), 5))

\* the conversation a chat request for cid works on
Addressed(cid) == get_or_create_conversation(conversations, order, cid).convs[cid]

\* a system entry holding memory facts
IsMemoryContext(entry) ==
    /\ entry.role = "system"
    /\ StartsWith(entry.content, NameFactPrefix) \/ StartsWith(entry.content, MoodFactPrefix)

MemoryContextCount(messages) ==
    Cardinality({i \in 1..Len(messages) : IsMemoryContext(messages[i])})

\* a system entry holding a mood note
IsMoodNote(entry) ==
    /\ entry.role = "system"
    /\ entry.content \in {MoodNotePositive, MoodNoteNegative, MoodNoteNeutral}

MoodNoteCount(messages) == Cardinality({i \in 1..Len(messages) : IsMoodNote(messages[i])})

AssistantCount(messages) ==
    Cardinality({i \in 1..Len(messages) : messages[i].role = "assistant"})

\* C1: in every reachable state, every conversation whose tone_set is true has
\* as its first transcript entry the system entry holding the prompt that
\* TONE_PROMPTS registers for its current_tone.
C1_FirstEntryIsTonePrompt ==
    \A cid \in DOMAIN conversations :
        conversations[cid].tone_set =>
            /\ conversations[cid].current_tone \in DOMAIN TONE_PROMPTS
            /\ Len(conversations[cid].messages) >= 1
            /\ conversations[cid].messages[1] =
                   Entry("system", TONE_PROMPTS[conversations[cid].current_tone])

\* C1 at work: after a tone switch and a turn that injected the memory context
\* at index 1, the serious prompt is still the first entry
C1_PromptAboveInjectedContext ==
    \E cid \in DOMAIN conversations :
        /\ conversations[cid].current_tone = ToneSerious
        /\ Len(conversations[cid].messages) >= 5
        /\ conversations[cid].messages[1] = Entry("system", PromptSerious)
        /\ IsMemoryContext(conversations[cid].messages[2])

\* C2, as the specification states it: no transcript ever holds more than one
\* memory-context system entry.  The code refutes it: line 266 looks for
\* "user's name", which a context built from a mood alone does not contain.
C2_AtMostOneMemoryContext ==
    \A cid \in DOMAIN conversations : MemoryContextCount(conversations[cid].messages) <= 1

\* C3, as the specification states it: a turn sent to an id the registry does
\* not hold is answered with the onboarding guidance, without a completion
\* call, and the conversation is left with its one system entry.  The code
\* refutes it: Conversation.__init__ sets the tone, so line 247 never applies.
C3_OnboardingBeforeTone ==
    [][(last'.op = "chat" /\ last'.cid \notin DOMAIN conversations /\ IsTurn(last'.message))
          => /\ last'.response = OnboardingGuidance
             /\ last'.completions = 0
             /\ Len(conversations'[last'.cid].messages) = 1]_vars

\* tone names that are none of the four registered ones once lower-cased and
\* stripped
InvalidToneNames ==
    {ToneArgBogus, <<>>, <<" ">>, <<"f","u","n">>, <<"f","u","n","n","y","!">>, <<"d","a","r","k"," ","h","u","m","o","r">>,
     <<"p","o","U+00E9","t","i","c">>, <<"U+017F","e","r","i","o","u","s">>}

\* C4: a /tone command whose name is not a registered tone is answered with the
\* invalid-tone guidance and leaves the conversation (messages, memory, title,
\* current_tone, tone_set) as it was; set_tone itself, on any conversation of
\* the registry and any invalid name, raises and changes nothing.
C4_InvalidToneChangesNothing ==
    /\ [][(/\ last'.op = "chat"
           /\ IsToneCommand(last'.message)
           /\ CommandArgument(last'.message) # <<>>
           /\ Strip(Lower(CommandArgument(last'.message))) \notin DOMAIN TONE_PROMPTS)
          => /\ last'.status = 200
             /\ last'.response = InvalidToneGuidance
             /\ conversations'[last'.cid] = Addressed(last'.cid)
      ]_vars
    /\ [](\A cid \in DOMAIN conversations, tone \in InvalidToneNames :
              set_tone(conversations[cid], tone) = [raised |-> TRUE, self |-> conversations[cid]])

\* C4 at work: "/tone bogus" was refused on a conversation that holds a
\* transcript of several entries, remembered facts and a tone of its own
C4_RefusedOnLivedInConversation ==
    /\ last.op = "chat"
    /\ last.message = MsgToneBogus
    /\ last.response = InvalidToneGuidance
    /\ Len(conversations[last.cid].messages) >= 4
    /\ DOMAIN conversations[last.cid].memory # {}
    /\ conversations[last.cid].current_tone = ToneSerious

\* spellings of registered tones, each with the tone it names
ToneSpellings ==
    {[given |-> ToneArgPoetic, tone |-> TonePoetic],
     [given |-> <<"F","U","N","N","Y">>, tone |-> ToneFunny],
     [given |-> <<" "," ","S","e","r","i","o","u","s">>, tone |-> ToneSerious],
     [given |-> <<"\t","d","a","r","k","_","H","U","M","O","R","\n">>, tone |-> ToneDarkHumor],
     [given |-> <<"D","A","R","U+212A","_","h","u","m","o","r","U+2003">>, tone |-> ToneDarkHumor],
     [given |-> ToneFunny, tone |-> ToneFunny]}

\* C5: set_tone with a registered tone in any letter case and with surrounding
\* whitespace leaves messages equal to the one system entry with that tone's
\* prompt, current_tone equal to the normalized name, and memory and title as
\* they were; a successful /tone command leaves that entry followed by its
\* assistant entry.
C5_ValidToneResetsTranscript ==
    /\ [][(/\ last'.op = "chat"
           /\ IsToneCommand(last'.message)
           /\ Strip(Lower(CommandArgument(last'.message))) \in DOMAIN TONE_PROMPTS)
          => /\ conversations'[last'.cid].messages =
                    <<Entry("system",
                            TONE_PROMPTS[Strip(Lower(CommandArgument(last'.message)))]),
                      Entry("assistant", last'.response)>>
             /\ conversations'[last'.cid].current_tone =
                    Strip(Lower(CommandArgument(last'.message)))
             /\ conversations'[last'.cid].tone_set
             /\ conversations'[last'.cid].memory = Addressed(last'.cid).memory
             /\ conversations'[last'.cid].title = Addressed(last'.cid).title
      ]_vars
    /\ [](\A cid \in DOMAIN conversations, sp \in ToneSpellings :
              set_tone(conversations[cid], sp.given) =
                  [raised |-> FALSE,
                   self |-> [conversations[cid] EXCEPT
                                 !.messages = <<Entry("system", TONE_PROMPTS[sp.tone])>>,
                                 !.current_tone = sp.tone,
                                 !.tone_set = TRUE]])

\* C5 at work: " /TONE  SERIOUS " reset a renamed conversation that remembers
\* facts to the serious prompt and the command's assistant entry
C5_SwitchedKeepingMemoryAndTitle ==
    /\ last.op = "chat"
    /\ last.message = MsgToneSerious
    /\ Len(conversations[last.cid].messages) = 2
    /\ conversations[last.cid].messages[1] = Entry("system", PromptSerious)
    /\ DOMAIN conversations[last.cid].memory # {}
    /\ conversations[last.cid].title = "Home"

\* C6: a create for an id the registry holds fails (400) and a delete, rename
\* or history for an id it does not hold fails (404); either way the registry,
\* the order of its keys and hence the listing are as before, and no id is
\* created.
C6_FailedRegistryOperationChangesNothing ==
    [][/\ (last'.op = "new" /\ last'.cid \in DOMAIN conversations)
          => last'.status = 400 /\ UNCHANGED <<conversations, order>>
       /\ (last'.op \in {"delete", "rename", "history"} /\ last'.cid \notin DOMAIN conversations)
          => /\ last'.status = 404
             /\ UNCHANGED <<conversations, order>>
             /\ Listing(conversations', order') = Listing(conversations, order)
      ]_vars

\* C6 at work: a create was refused for the id of a conversation that has
\* been talked to and renamed, and that conversation is still there
C6_CreateRefusedForExistingId ==
    /\ last.op = "new"
    /\ last.status = 400
    /\ last.cid \in DOMAIN conversations
    /\ Len(conversations[last.cid].messages) > 1
    /\ conversations[last.cid].title = "Home"

\* C7: an id enters the registry only through a chat request for it (titled
\* "New Chat", and with tone "funny" unless that request was itself a /tone
\* command) or through a successful create; it leaves only through a
\* successful delete of it; a rename changes nothing but the title of the
\* conversation it names.
C7_Lifecycle ==
    [][/\ \A cid \in DOMAIN conversations' \ DOMAIN conversations :
              /\ last'.cid = cid
              /\ \/ /\ last'.op = "chat"
                    /\ conversations'[cid].title = "New Chat"
                    /\ IsToneCommand(last'.message) \/ conversations'[cid].current_tone = ToneFunny
                 \/ last'.op = "new" /\ last'.status = 200
       /\ \A cid \in DOMAIN conversations \ DOMAIN conversations' :
              last'.op = "delete" /\ last'.cid = cid /\ last'.status = 200
       /\ last'.op = "rename"
          => /\ DOMAIN conversations' = DOMAIN conversations
             /\ order' = order
             /\ \A cid \in DOMAIN conversations :
                    conversations'[cid] =
                        IF cid = last'.cid
                        THEN [conversations[cid] EXCEPT !.title = conversations'[cid].title]
                        ELSE conversations[cid]
      ]_vars

\* C7 at work: one conversation was deleted while another, renamed earlier,
\* stays in the registry
C7_DeletedBesideRenamed ==
    /\ last.op = "delete"
    /\ last.status = 200
    /\ last.cid \notin DOMAIN conversations
    /\ \E cid \in DOMAIN conversations :
           conversations[cid].title = "Home" /\ Len(conversations[cid].messages) > 1

\* C8, as the specification states it: a /gif command with a topic appends
\* the user entry "/gif <topic>" and one assistant entry, and always returns a
\* media reference that is not null.  The code refutes the last part: when the
\* result the search service returns carries an empty URL, line 228 returns
\* null.
C8_GifCommandAlwaysReturnsAsset ==
    [][(/\ last'.op = "chat"
        /\ IsGifCommand(last'.message)
        /\ CommandArgument(last'.message) # <<>>)
          => /\ conversations'[last'.cid].messages =
                    Addressed(last'.cid).messages
                        \o <<Entry("user", GifPrefix \o <<" ">> \o CommandArgument(last'.message)),
                             Entry("assistant", last'.response)>>
             /\ last'.gif # None
      ]_vars

\* C8, amended: a /gif command with a topic appends to the transcript exactly
\* the user entry "/gif <topic>" and one assistant entry holding the response;
\* on a conversation that held only its prompt, the history is then those two
\* entries.  The media reference returned is the fixed fallback asset or an
\* asset of the search service, and the response embeds it; it is null only
\* when the fetched URL is empty, and the response is then the no-GIF apology.
C8_GifCommandAppendsTwoEntries ==
    [][(/\ last'.op = "chat"
        /\ IsGifCommand(last'.message)
        /\ CommandArgument(last'.message) # <<>>)
          => /\ conversations'[last'.cid].messages =
                    Addressed(last'.cid).messages
                        \o <<Entry("user", GifPrefix \o <<" ">> \o CommandArgument(last'.message)),
                             Entry("assistant", last'.response)>>
             /\ last'.status = 200
             /\ last'.completions = 0
             /\ \/ last'.gif = None /\ last'.response = GifMissing
                \/ /\ last'.gif = FALLBACK_GIF
                   /\ last'.response = FALLBACK_MESSAGE \o GifOpen \o FALLBACK_GIF \o <<")">>
                \/ /\ last'.gif \in {TenorUrl, TenorFunnyUrl, TenorFunnyUrl2}
                   /\ last'.response = GifSuccessPrefix \o last'.gif \o <<")">>
             /\ Len(Addressed(last'.cid).messages) = 1
                => History(conversations'[last'.cid].messages) =
                       <<[sender |-> "user",
                          text |-> GifPrefix \o <<" ">> \o CommandArgument(last'.message)],
                         [sender |-> "assistant", text |-> last'.response]>>
      ]_vars

\* C8 at work: "/gif cats" on a fresh conversation was answered with an asset
\* of the search service
C8_GifFromSearchService ==
    /\ last.op = "chat"
    /\ last.message = MsgGif
    /\ last.gif = TenorUrl
    /\ Len(conversations[last.cid].messages) = 3
    /\ conversations[last.cid].messages[2] = Entry("user", MsgGif)

\* C9: a turn whose completion call fails ends with status 500 after one
\* completion call: no reply text, no media fetch, and no assistant entry
\* added to the transcript, whose last entry is the turn's user entry.
C9_CompletionFailureFailsTurn ==
    [][(last'.op = "chat" /\ IsTurn(last'.message) /\ last'.groq = "error")
          => /\ last'.status = 500
             /\ last'.completions = 1
             /\ last'.response = None
             /\ last'.gif = None
             /\ last'.fetches = <<>>
             /\ AssistantCount(conversations'[last'.cid].messages) =
                    AssistantCount(Addressed(last'.cid).messages)
             /\ conversations'[last'.cid].messages[Len(conversations'[last'.cid].messages)] =
                    Entry("user", last'.message)
      ]_vars

\* C9 at work: a turn failed on a conversation that had completed a turn before
C9_TurnFailedAfterCompletedTurn ==
    /\ last.op = "chat"
    /\ last.groq = "error"
    /\ last.status = 500
    /\ IsTurn(last.message)
    /\ AssistantCount(conversations[last.cid].messages) >= 1

\* C10, as the specification states it: once a turn has completed, the stored
\* transcript holds no mood-note system entry.  The code refutes it: line 269
\* appends the note to conversation.messages, where it stays.
C10_NoMoodNoteStored ==
    (last.op = "chat" /\ IsTurn(last.message) /\ last.status = 200)
        => MoodNoteCount(conversations[last.cid].messages) = 0

\* C10, amended: every turn that reaches the completion call stores its mood
\* note, chosen by the classifier's label, as a system entry immediately before
\* the turn's user entry, so a transcript holds one more mood note with every
\* such turn.
C10_MoodNoteStoredEachTurn ==
    [][(last'.op = "chat" /\ IsTurn(last'.message) /\ last'.completions = 1)
          => /\ MoodNoteCount(conversations'[last'.cid].messages) =
                    MoodNoteCount(Addressed(last'.cid).messages) + 1
             /\ \E i \in 1..(Len(conversations'[last'.cid].messages) - 1) :
                    /\ conversations'[last'.cid].messages[i] =
                           Entry("system", MoodNote(Lower(last'.label)))
                    /\ conversations'[last'.cid].messages[i + 1] = Entry("user", last'.message)
                    /\ i + 1 >= Len(conversations'[last'.cid].messages) - 1
      ]_vars

\* C10 at work: after two completed turns the transcript holds two mood notes
C10_TwoMoodNotesStored ==
    /\ last.op = "chat"
    /\ last.status = 200
    /\ IsTurn(last.message)
    /\ MoodNoteCount(conversations[last.cid].messages) >= 2

(***************************************************************************)
(* The search for a GIF                                                    *)
(***************************************************************************)
IsGifRequest == last.op = "gif"

\* the URL get_gif_url returned to get_gif: the handler answers 404 exactly
\* when it is empty
FetchedUrl == IF last.status = 404 THEN <<>> ELSE last.gif

NoResult == [kind |-> "ok", results |-> <<>>]

\* the list the candidate is drawn from, <<>> when no search returned one
Candidates(tenor) ==
    IF tenor.primary.kind # "ok" THEN <<>>
    ELSE IF tenor.primary.results # <<>> THEN tenor.primary.results
    ELSE IF tenor.fallback.kind # "ok" THEN <<>>
    ELSE tenor.fallback.results

\* every search that was sent ended in an error
EverySearchFailed(tenor) ==
    \/ tenor.primary.kind # "ok"
    \/ tenor.primary = NoResult /\ tenor.fallback.kind # "ok"

\* C11 as stated: whatever the search service does, GET /gifs/{topic} returns
\* a GIF.  Violated: a result whose URL is the empty string is returned as it
\* is, and the handler answers 404 with no GIF.
C11_FetchAlwaysReturnsAsset ==
    IsGifRequest => last.status = 200 /\ last.gif # None /\ last.gif # <<>>

\* C11 (amended): get_gif_url never raises, so GET /gifs/{topic} answers 200
\* or, for an empty URL, 404; it returns the fixed GIF when every search sent
\* failed, when no search returned a result and when the candidate is
\* malformed, and otherwise the candidate's URL as the service gave it, the
\* empty string included.
C11_FetchNeverFailsOutward ==
    IsGifRequest =>
        /\ last.status \in {200, 404}
        /\ EverySearchFailed(last.tenor) => last.status = 200 /\ last.gif = FALLBACK_GIF
        /\ Candidates(last.tenor) = <<>> => last.status = 200 /\ last.gif = FALLBACK_GIF
        /\ Candidates(last.tenor) # <<>> =>
               \E i \in 1..Len(Candidates(last.tenor)) :
                   IF Candidates(last.tenor)[i] = Malformed
                   THEN last.status = 200 /\ last.gif = FALLBACK_GIF
                   ELSE FetchedUrl = Candidates(last.tenor)[i]
        /\ last.status = 404 <=> last.gif = None

\* the first search returned nothing and the second one failed
C11_FallbackAfterFailedSecondSearch ==
    /\ IsGifRequest
    /\ last.tenor.primary = NoResult
    /\ last.tenor.fallback.kind = "error"
    /\ last.searches = <<SearchQuery(last.message), FallbackQuery>>
    /\ last.gif = FALLBACK_GIF

\* C12 as stated: after a first search without result and a second one with
\* results, the fixed GIF is never returned.  Violated: a malformed candidate
\* of the second search yields the fixed GIF.
C12_FallbackCandidateNeverFixedGif ==
    (/\ IsGifRequest
     /\ last.tenor.primary = NoResult
     /\ last.tenor.fallback.kind = "ok"
     /\ last.tenor.fallback.results # <<>>) => last.gif # FALLBACK_GIF

\* C12 (amended): a first search without result is followed by exactly one
\* more search, for the literal "funny", and any other first search by none;
\* when the second search returns results, the URL returned is that of one
\* of them, unless the candidate drawn is malformed, which yields the fixed GIF.
C12_OneFallbackSearchForFunny ==
    IsGifRequest =>
        /\ last.searches[1] = SearchQuery(last.message)
        /\ IF last.tenor.primary = NoResult
           THEN last.searches = <<last.searches[1], <<"f", "u", "n", "n", "y">> >>
           ELSE Len(last.searches) = 1
        /\ (/\ last.tenor.primary = NoResult
            /\ last.tenor.fallback.kind = "ok"
            /\ last.tenor.fallback.results # <<>>) =>
               \E i \in 1..Len(last.tenor.fallback.results) :
                   IF last.tenor.fallback.results[i] = Malformed
                   THEN last.gif = FALLBACK_GIF
                   ELSE FetchedUrl = last.tenor.fallback.results[i]
                        /\ FetchedUrl # FALLBACK_GIF

\* the second of two candidates of the search for "funny" was returned
C12_SecondFallbackCandidateReturned ==
    /\ IsGifRequest
    /\ last.tenor.primary = NoResult
    /\ last.tenor.fallback.results = <<TenorFunnyUrl, TenorFunnyUrl2>>
    /\ Len(last.searches) = 2
    /\ last.gif = TenorFunnyUrl2

(***************************************************************************)
(* The decoration of a turn                                                *)
(***************************************************************************)
\* the turn just made was for a positive sentiment or in the funny tone, and
\* its draw was below the chance
DecorationDue ==
    /\ Lower(last'.label) = Positive \/ Addressed(last'.cid).current_tone = ToneFunny
    /\ last'.draw < GifChanceTenths

\* C13: a turn whose completion call succeeds fetches a GIF exactly when the
\* sentiment is positive or the conversation's tone is funny, and the draw is
\* below 0.3; the query is "happy" for a positive sentiment and "funny"
\* otherwise.  In every other case no search is sent, the gif returned is
\* null, and the one entry added after the user's entry is the assistant's
\* entry holding the completion text alone.
C13_DecorationOnlyWhenDue ==
    [][(last'.op = "chat" /\ IsTurn(last'.message) /\ last'.groq = "ok")
          => /\ last'.status = 200
             /\ DecorationDue =>
                    /\ last'.fetches =
                           <<IF Lower(last'.label) = Positive THEN <<"h", "a", "p", "p", "y">>
                             ELSE <<"f", "u", "n", "n", "y">> >>
                    /\ Len(last'.searches) >= 1
                    /\ last'.searches[1] = last'.fetches[1]
             /\ ~DecorationDue =>
                    /\ last'.fetches = <<>>
                    /\ last'.searches = <<>>
                    /\ last'.gif = None
                    /\ last'.response = ReplyText
             /\ conversations'[last'.cid].messages[Len(conversations'[last'.cid].messages)] =
                    Entry("assistant", last'.response)
             /\ conversations'[last'.cid].messages[Len(conversations'[last'.cid].messages) - 1] =
                    Entry("user", last'.message)
             /\ AssistantCount(conversations'[last'.cid].messages) =
                    AssistantCount(Addressed(last'.cid).messages) + 1
      ]_vars

\* C13 at work: a turn of neutral sentiment in the funny tone, decorated with
\* a GIF found for "funny"
C13_FunnyToneTurnDecorated ==
    /\ last.op = "chat"
    /\ IsTurn(last.message)
    /\ last.status = 200
    /\ last.label = LabelNeutral
    /\ last.draw < GifChanceTenths
    /\ conversations[last.cid].current_tone = ToneFunny
    /\ last.fetches = <<QueryFunny>>
    /\ last.gif = TenorUrl

(***************************************************************************)
(* Independence of conversations                                           *)
(***************************************************************************)
\* C14: a request addressed to one conversation id (a chat turn, a /gif or
\* /tone command, create, rename, delete, history) leaves every other id as
\* it was: present or absent as before, with the same messages, memory,
\* tone and title.  Requests that address no id leave all of them so.
C14_OtherConversationsUnchanged ==
    [][\A b \in (DOMAIN conversations) \cup (DOMAIN conversations') :
           b # last'.cid =>
               /\ b \in DOMAIN conversations
               /\ b \in DOMAIN conversations'
               /\ conversations'[b].messages = conversations[b].messages
               /\ conversations'[b].memory = conversations[b].memory
               /\ conversations'[b].current_tone = conversations[b].current_tone
               /\ conversations'[b].tone_set = conversations[b].tone_set
               /\ conversations'[b].title = conversations[b].title
      ]_vars

\* C14 at work: a turn completed in one conversation beside another one that
\* had been renamed and had completed a turn of its own
C14_TurnBesideOtherConversation ==
    /\ last.op = "chat"
    /\ last.status = 200
    /\ IsTurn(last.message)
    /\ \E b \in DOMAIN conversations :
           /\ b # last.cid
           /\ conversations[b].title = "Home"
           /\ AssistantCount(conversations[b].messages) >= 1

(***************************************************************************)
(* remember                                                                *)
(***************************************************************************)
\* the value memory holds under key, None when the key is absent
Remembered(memory, key) == IF key \in DOMAIN memory THEN memory[key] ELSE None

\* utterances without "my name is", and without "I am" or "I'm"
NamesNoName == {MsgHello, MsgMood, SaidHappy, SaidStudent, SaidTeacher, SaidBitcoin}

NamesNoMood == {MsgHello, MsgName, SaidNameBob}

\* C15, as the specification states it: remember never removes a key and
\* overwrites the value of a key it extracts; "my name is <word>" sets name
\* to the word capitalized, "I'm feeling <word>" sets mood to the word in
\* lower case, an utterance without the phrase leaves the key as it was, and
\* so does "I am"/"I'm" followed by the article "a" and a noun.  The code
\* refutes the last part: in "I'm a bitcoin fan" the pattern's optional
\* "a bit" matches inside the noun and the mood becomes "coin".
C15_RememberMergesFacts ==
    [][last'.op = "remember"
          => /\ DOMAIN conversations[last'.cid].memory
                    \subseteq DOMAIN conversations'[last'.cid].memory
             /\ last'.message = MsgName =>
                    conversations'[last'.cid].memory["name"] = <<"A", "l", "i", "c", "e">>
             /\ last'.message = SaidNameBob =>
                    conversations'[last'.cid].memory["name"] = <<"B", "o", "b">>
             /\ last'.message = MsgMood =>
                    conversations'[last'.cid].memory["mood"] = <<"s", "a", "d">>
             /\ last'.message = SaidHappy =>
                    conversations'[last'.cid].memory["mood"] = <<"h", "a", "p", "p", "y">>
             /\ last'.message \in {SaidStudent, SaidTeacher, SaidBitcoin} \cup NamesNoMood =>
                    Remembered(conversations'[last'.cid].memory, "mood") =
                        Remembered(conversations[last'.cid].memory, "mood")
             /\ last'.message \in NamesNoName =>
                    Remembered(conversations'[last'.cid].memory, "name") =
                        Remembered(conversations[last'.cid].memory, "name")
      ]_vars

(***************************************************************************)
(* The injection of the memory context                                     *)
(***************************************************************************)
\* some system entry of the transcript contains "user's name"
SystemEntryCarriesMarker(messages) ==
    \E i \in 1..Len(messages) :
        messages[i].role = "system" /\ Contains(messages[i].content, NameMarker)

\* C16, as the specification states it: a turn that the classifier labels
\* injects the memory context exactly when the memory, once the utterance is
\* remembered, is not empty and no system entry of the transcript carries
\* "user's name"; what user and assistant entries contain does not matter.  The code refutes it: line 266
\* looks for the marker in every entry, so a user entry that contains it
\* suppresses the injection.
C16_InjectionDecidedBySystemEntries ==
    [][(last'.op = "chat" /\ IsTurn(last'.message) /\ last'.label # Raises)
          => ((MemoryContextCount(conversations'[last'.cid].messages) =
                   MemoryContextCount(Addressed(last'.cid).messages) + 1)
              <=> (/\ DOMAIN conversations'[last'.cid].memory # {}
                   /\ ~SystemEntryCarriesMarker(Addressed(last'.cid).messages)))
      ]_vars

(***************************************************************************)
(* The celebration of the funny tone                                       *)
(***************************************************************************)
\* C17, as the specification states it: a /tone command that succeeds fetches
\* a GIF exactly when the conversation's new current_tone is "funny", leaves
\* the transcript equal to the new prompt followed by one assistant entry,
\* and returns a gif that is not null exactly when the fetch was made.  The
\* code refutes it: line 237 compares the name as typed with "funny", so
\* "/tone Funny" sets the funny tone without a fetch.
C17_CelebrationWhenToneBecomesFunny ==
    [][(/\ last'.op = "chat"
        /\ IsToneCommand(last'.message)
        /\ Strip(Lower(CommandArgument(last'.message))) \in DOMAIN TONE_PROMPTS)
          => /\ (last'.fetches # <<>>) <=> (conversations'[last'.cid].current_tone = ToneFunny)
             /\ conversations'[last'.cid].messages =
                    <<Entry("system", TONE_PROMPTS[conversations'[last'.cid].current_tone]),
                      Entry("assistant", last'.response)>>
             /\ (last'.gif # None) <=> (last'.fetches # <<>>)
      ]_vars

(***************************************************************************)
(* Two requests for one conversation                                       *)
(***************************************************************************)
\* some request of sys that has appended its user entry and whose completion
\* call has not returned finds its turn interleaved with another request's:
\* its conversation is gone from the registry, entries were written after
\* its user entry, or another request for the same conversation stands at
\* its own completion call, which was sent a transcript that holds both
\* requests' unanswered user entries
Interleaved(sys) ==
    \E s \in DOMAIN sys.inflight :
        /\ sys.inflight[s].pc = "completion"
        /\ \/ sys.inflight[s].cid \notin DOMAIN sys.conversations
           \/ Len(sys.conversations[sys.inflight[s].cid].messages) # sys.inflight[s].at
           \/ \E r \in DOMAIN sys.inflight \ {s} :
                  /\ sys.inflight[r].pc = "completion"
                  /\ sys.inflight[r].cid = sys.inflight[s].cid

\* the states reached from those of seen in at most k steps of turns in
\* flight: requests received, handlers started, completion calls ended
RECURSIVE Reach(_, _, _)
Reach(sc, seen, k) ==
    IF k = 0 THEN seen
    ELSE Reach(sc,
               seen \cup UNION {Receive(sc, sys) \cup BeginTurn(sys) \cup EndTurn(sc, sys) :
                                  sys \in seen},
               k - 1)

\* C18 as stated: two POST /chat/ requests in flight for one conversation may
\* interleave, that is, starting from the empty registry some schedule of the
\* two requests (three steps each: received, started, ended) reaches a state
\* in which one request's entries lie after the user entry of the other,
\* which is not answered yet, or in which a completion call was sent the
\* other request's unanswered user entry.  Violated: no schedule does, since
\* chat() never awaits.
C18_InterleavedStateReachable ==
    (conversations = <<>> /\ \A s \in DOMAIN inflight : inflight[s] = NoTask)
        => \E sys \in Reach(Marker, {State}, 3 * Cardinality(DOMAIN inflight)) :
               Interleaved(sys)

\* C18 (amended): two POST /chat/ requests for the same conversation do not
\* interleave, whatever else is in flight.  In every reachable state, a
\* request that has appended its user entry and whose completion call has not
\* returned finds that entry last in its conversation's transcript, and no
\* other request for that conversation stands at its completion call; and the
\* step that ends it is its own: the assistant entry is appended right after
\* its user entry, or the call fails and nothing is appended, and the memory
\* stays as the request left it.
C18_RequestsNotInterleaved ==
    /\ [][\A s \in DOMAIN inflight :
              (inflight[s].pc = "completion" /\ inflight'[s].pc # "completion")
                  => /\ last'.op = "chat"
                     /\ last'.cid = inflight[s].cid
                     /\ last'.message = inflight[s].message
                     /\ conversations'[last'.cid].memory = conversations[last'.cid].memory
                     /\ \/ /\ last'.status = 200
                           /\ conversations'[last'.cid].messages =
                                  Append(conversations[last'.cid].messages,
                                         Entry("assistant", last'.response))
                           /\ Len(conversations'[last'.cid].messages) = inflight[s].at + 1
                        \/ /\ last'.status = 500
                           /\ conversations'[last'.cid].messages =
                                  conversations[last'.cid].messages
         ]_vars
    /\ [](\A s \in DOMAIN inflight :
              inflight[s].pc = "completion"
                  => /\ inflight[s].cid \in DOMAIN conversations
                     /\ Len(conversations[inflight[s].cid].messages) = inflight[s].at
                     /\ conversations[inflight[s].cid].messages[inflight[s].at] =
                            Entry("user", inflight[s].message)
                     /\ \A r \in DOMAIN inflight \ {s} :
                            ~(inflight[r].pc = "completion"
                              /\ inflight[r].cid = inflight[s].cid))

\* C18 at work: two requests for one conversation are in flight at once.  One
\* has appended its user entry and waits at its completion call, the other
\* is received and waits for the event loop, in a conversation whose earlier
\* turn was answered
C18_SecondRequestWaitsForTurn ==
    \E s \in DOMAIN inflight, r \in DOMAIN inflight :
        /\ inflight[s].pc = "completion"
        /\ inflight[r].pc = "ready"
        /\ inflight[r].cid = inflight[s].cid
        /\ AssistantCount(conversations[inflight[s].cid].messages) >= 1

(***************************************************************************)
(* The fields no request clears                                            *)
(***************************************************************************)
\* C19: after every request, every conversation of the registry is active,
\* has tone_set true and a current_tone among the four registered tones; a
\* create with an invalid tone fails and stores nothing; and no chat request
\* is refused with status 400 or answered with the onboarding guidance.
C19_StoredConversationsHaveTone ==
    [][/\ \A cid \in DOMAIN conversations' :
              /\ conversations'[cid].active
              /\ conversations'[cid].tone_set
              /\ conversations'[cid].current_tone \in
                     {<<"s", "e", "r", "i", "o", "u", "s">>, <<"f", "u", "n", "n", "y">>,
                      <<"p", "o", "e", "t", "i", "c">>,
                      <<"d", "a", "r", "k", "_", "h", "u", "m", "o", "r">>}
       /\ (/\ last'.op = "new"
           /\ Strip(Lower(last'.message)) \notin DOMAIN TONE_PROMPTS)
              => /\ last'.status \in {400, 500}
                 /\ conversations' = conversations
                 /\ order' = order
       /\ last'.op = "chat" =>
              /\ last'.status \in {200, 500}
              /\ last'.response # OnboardingGuidance
      ]_vars

\* C19 at work: a create with an invalid tone was refused for an id the
\* registry does not hold, beside a conversation in the poetic tone
C19_InvalidCreateStoredNothing ==
    /\ last.op = "new"
    /\ last.status = 500
    /\ last.cid \notin DOMAIN conversations
    /\ \E cid \in DOMAIN conversations :
           conversations[cid].current_tone = TonePoetic /\ Len(conversations[cid].messages) > 1

(***************************************************************************)
(* A turn that fails at the completion call                                *)
(***************************************************************************)
\* the transcript holds a user entry followed by a system entry: a turn's
\* entry that got no assistant entry
UnansweredAt(messages, i) ==
    /\ messages[i].role = "user"
    /\ messages[i + 1].role = "system"

\* C20: a turn whose completion call fails is not rolled back.  The fact it
\* named stays in memory, the memory context it injected stays at index 1,
\* and the transcript ends with its mood note and its user entry, without an
\* assistant entry; when the next turn of the conversation succeeds, that
\* user entry is still in the transcript the completion call was sent,
\* before the new turn's mood note and user entry.
C20_FailedTurnNotRolledBack ==
    [][/\ (last'.op = "chat" /\ IsTurn(last'.message) /\ last'.groq = "error")
          => /\ last'.status = 500
             /\ last'.message = MsgName =>
                    conversations'[last'.cid].memory["name"] = <<"A", "l", "i", "c", "e">>
             /\ last'.message = MsgMood =>
                    conversations'[last'.cid].memory["mood"] = <<"s", "a", "d">>
             /\ DOMAIN Addressed(last'.cid).memory
                    \subseteq DOMAIN conversations'[last'.cid].memory
             /\ Len(conversations'[last'.cid].messages) \in
                    {Len(Addressed(last'.cid).messages) + 2,
                     Len(Addressed(last'.cid).messages) + 3}
             /\ (Len(conversations'[last'.cid].messages) =
                     Len(Addressed(last'.cid).messages) + 3)
                    <=> (/\ IsMemoryContext(conversations'[last'.cid].messages[2])
                         /\ MemoryContextCount(conversations'[last'.cid].messages) =
                                MemoryContextCount(Addressed(last'.cid).messages) + 1)
             /\ SubSeq(conversations'[last'.cid].messages,
                       Len(conversations'[last'.cid].messages) - 1,
                       Len(conversations'[last'.cid].messages)) =
                    <<Entry("system", MoodNote(Lower(last'.label))),
                      Entry("user", last'.message)>>
       /\ (/\ last.op = "chat" /\ IsTurn(last.message) /\ last.groq = "error"
           /\ last'.op = "chat" /\ IsTurn(last'.message) /\ last'.status = 200
           /\ last'.cid = last.cid)
          => \E i \in 1..(Len(conversations'[last'.cid].messages) - 3) :
                 /\ conversations'[last'.cid].messages[i] = Entry("user", last.message)
                 /\ UnansweredAt(conversations'[last'.cid].messages, i)
                 /\ i >= Len(conversations'[last'.cid].messages) - 4
      ]_vars

\* C20 at work: a turn was answered in a conversation that holds an earlier
\* turn's user entry without an assistant entry, beside an injected memory
\* context
C20_AnsweredAfterUnansweredEntry ==
    /\ last.op = "chat"
    /\ IsTurn(last.message)
    /\ last.status = 200
    /\ IsMemoryContext(conversations[last.cid].messages[2])
    /\ \E i \in 1..(Len(conversations[last.cid].messages) - 3) :
           UnansweredAt(conversations[last.cid].messages, i)

====
